---- MODULE Spec2Model ----
(***************************************************************************)
(* The task-graph engine of wip (src/src/wip/cli.py, src/src/wip/model.py). *)
(* The variables tasks, edges, blocked, history, next_id and config are the *)
(* fields of State as they stand in the state file between two commands;   *)
(* every command loads them, acts and saves them.  last is what the        *)
(* command reported (its click.echo outcome).                              *)
(***************************************************************************)
EXTENDS Integers, Sequences, FiniteSets, TLC

VARIABLES tasks, edges, blocked, history, next_id, config, last, file, issued, everIssued,
          merges, completed, pub

persisted == <<tasks, edges, blocked, history, next_id, config>>
vars == <<tasks, edges, blocked, history, next_id, config, last, file, issued, everIssued,
          merges, completed, pub>>

\* file is the snapshot written by save (empty while there is none); issued and
\* everIssued record the ids handed out since the last reset and since the
\* start; merges counts the imports (load, with or without --merge); completed is a note of the ids that
\* mark done has put into history, kept by the specification that follows them
\* (SpecHistory) and left empty by the others; pub is the process as storage.py
\* sees it (the publish threads, the thread handle, the auto-publish switch,
\* the state file and the remote document), moved by SpecPublish only
book == <<file, issued, everIssued, merges, completed, pub>>

\* ------------------------------------------------------------------ bounds
\* ids are allocated up to MaxTasks; commands name ids in 1..MaxTasks
MaxTasks == 3
\* the edge list grows to at most MaxEdges edges
MaxEdges == 2
\* with save and merge import, add allocates ids up to MaxSaved from a fresh
\* state and the import brings the ones above
MaxSaved == 2
\* a behaviour holds at most MaxMerges merge imports
MaxMerges == 1
\* the ids and edges of the cascade specification
MaxCascadeTasks == 4
MaxCascadeEdges == 3
\* the ids of a snapshot given to remap, and the largest start id
MaxRemapIds == 3
MaxStart == 6

Ids == 1..MaxTasks
Titles == {"A"}
\* datetime.now() when a task is added, and later, when one is marked done
Times == {1}
DoneTimes == {2}
\* --by / --blocked values; "" stands for an absent or empty option (both falsy)
Blockers == {"", "x"}
\* config KEY VALUE pairs: max_active is lowered to 1, stale_days is set to its
\* default; the other values are rejected
ConfigArgs == {<<"max_active", "1">>, <<"max_active", "0">>, <<"max_active", "x">>,
               <<"stale_days", "14">>, <<"stale_days", "0">>, <<"stale_days", "x">>,
               <<"colour", "1">>}

\* ------------------------------------------------------------------ helpers
Digit(d) == <<"0", "1", "2", "3", "4", "5", "6", "7", "8", "9">>[d + 1]

RECURSIVE StrOf(_)
\* str(n) for n >= 0
StrOf(n) == IF n < 10 THEN Digit(n) ELSE StrOf(n \div 10) \o Digit(n % 10)

\* the decimal numerals the commands read and write
Numerals == [n \in 0..(2 * MaxTasks + 14) |-> StrOf(n)]

Range(s) == {s[i] : i \in 1..Len(s)}

RemoveAt(s, i) == SubSeq(s, 1, i - 1) \o SubSeq(s, i + 1, Len(s))

Perms(S) == {p \in [1..Cardinality(S) -> S] : \A i, j \in 1..Cardinality(S) : p[i] = p[j] => i = j}

\* ------------------------------------------------------------------ model.py
Task(id, title, active, created_at) ==
    [id |-> id, title |-> title, active |-> active, created_at |-> created_at]

BlockedTask(id, title, blocker, created_at) ==
    [id |-> id, title |-> title, blocker |-> blocker, created_at |-> created_at]

HistoryEntry(id, title, completed_at, created_at) ==
    [id |-> id, title |-> title, completed_at |-> completed_at, created_at |-> created_at]

Edge(from_id, to_id) == [from_id |-> from_id, to_id |-> to_id]

ShareConfig == [enabled |-> FALSE, gist_id |-> "", gist_url |-> ""]

Config == [max_active |-> 2, stale_days |-> 14, share |-> ShareConfig]

\* storage.py as the module is imported: auto-publish enabled, no publish
\* thread, nothing saved and nothing published yet
NoPublish ==
    [main |-> "running", auto_publish_enabled |-> TRUE, threads |-> <<>>,
     publish_thread |-> 0, saved |-> <<>>, remote |-> <<>>, stderr |-> <<>>,
     timed_out |-> FALSE, in_flight |-> {}]

\* State.get_task: tasks.get(str(task_id)) is not None
has_task(task_id) == StrOf(task_id) \in DOMAIN tasks

get_task(task_id) == tasks[StrOf(task_id)]

\* State.get_blocked: the first entry of blocked with that id
has_blocked(task_id) == \E i \in 1..Len(blocked) : blocked[i].id = task_id

get_blocked(task_id) ==
    blocked[CHOOSE i \in 1..Len(blocked) :
               /\ blocked[i].id = task_id
               /\ \A j \in 1..(i - 1) : blocked[j].id # task_id]

active_count == Cardinality({k \in DOMAIN tasks : tasks[k].active})

\* a lookup that finds the edge laid the other way round
has_edge_reverse(from_id, to_id) ==
    \E i \in 1..Len(edges) : edges[i].from_id = to_id /\ edges[i].to_id = from_id

has_edge(from_id, to_id) ==
    \E i \in 1..Len(edges) : edges[i].from_id = from_id /\ edges[i].to_id = to_id

get_edges_from(es, task_id) == SelectSeq(es, LAMBDA e : e.from_id = task_id)

get_edges_to(es, task_id) == SelectSeq(es, LAMBDA e : e.to_id = task_id)

\* ------------------------------------------------------------------ cli.py helpers
ToIds(es) == [i \in 1..Len(es) |-> es[i].to_id]

FromIds(es) == [i \in 1..Len(es) |-> es[i].from_id]

RECURSIVE CycleDFS(_, _, _, _)
\* the while loop of _would_create_cycle: stack.pop() takes the last element
CycleDFS(es, stack, visited, from_id) ==
    IF stack = <<>> THEN FALSE
    ELSE LET node == stack[Len(stack)]
             rest == SubSeq(stack, 1, Len(stack) - 1)
         IN  IF node = from_id THEN TRUE
             ELSE IF node \in visited THEN CycleDFS(es, rest, visited, from_id)
             ELSE CycleDFS(es, rest \o ToIds(get_edges_from(es, node)),
                           visited \cup {node}, from_id)

would_create_cycle(es, from_id, to_id) == CycleDFS(es, <<to_id>>, {}, from_id)

task_exists(task_id) == has_task(task_id) \/ has_blocked(task_id)

RECURSIVE DescScan(_, _, _, _, _)
\* the for loop of _get_all_descendants over state.edges, from edge i on;
\* yields the descendants set and the stack after the loop
DescScan(es, i, current, descendants, stack) ==
    IF i > Len(es) THEN [descendants |-> descendants, stack |-> stack]
    ELSE IF es[i].from_id = current /\ es[i].to_id \notin descendants
         THEN DescScan(es, i + 1, current, descendants \cup {es[i].to_id},
                       Append(stack, es[i].to_id))
         ELSE DescScan(es, i + 1, current, descendants, stack)

RECURSIVE DescLoop(_, _, _)
\* the while loop of _get_all_descendants
DescLoop(es, stack, descendants) ==
    IF stack = <<>> THEN descendants
    ELSE LET current == stack[Len(stack)]
             rest == SubSeq(stack, 1, Len(stack) - 1)
             r == DescScan(es, 1, current, descendants, rest)
         IN  DescLoop(es, r.stack, r.descendants)

\* a traversal that stops at the direct successors of task_id
get_all_descendants_direct(es, task_id) == DescScan(es, 1, task_id, {}, <<>>).descendants

get_all_descendants(es, task_id) == DescLoop(es, <<task_id>>, {})

\* a move to hold that appends the held entry and leaves the task in the pool
move_to_hold_keep(st, task_id, blocker) ==
    IF StrOf(task_id) \notin DOMAIN st.tasks THEN st
    ELSE LET task == st.tasks[StrOf(task_id)]
         IN  [tasks |-> st.tasks,
              blocked |-> Append(st.blocked,
                                 BlockedTask(task_id, task.title, blocker, task.created_at)),
              moved |-> IF task.title # "" THEN Append(st.moved, task_id) ELSE st.moved]

\* _move_to_hold on the pair st = [tasks, blocked, moved]; moved collects the
\* ids the caller reports (the title returned is truthy)
move_to_hold(st, task_id, blocker) ==
    IF StrOf(task_id) \notin DOMAIN st.tasks THEN st
    ELSE LET task == st.tasks[StrOf(task_id)]
         IN  [tasks |-> [k \in DOMAIN st.tasks \ {StrOf(task_id)} |-> st.tasks[k]],
              blocked |-> Append(st.blocked,
                                 BlockedTask(task_id, task.title, blocker, task.created_at)),
              moved |-> IF task.title # "" THEN Append(st.moved, task_id) ELSE st.moved]

RECURSIVE MoveAll(_, _, _, _)
\* the loop "for tid in all_to_move" of link, in the iteration order `order`
MoveAll(st, order, i, from_id) ==
    IF i > Len(order) THEN st
    ELSE MoveAll(move_to_hold(st, order[i], "Task " \o StrOf(from_id)), order, i + 1, from_id)

\* what a command reports: res is "ok", "noop" or the kind of the error; info is
\* the id list of the message (tasks moved to hold, blocking ids, the id not found)
Report(res, info) == [res |-> res, info |-> info]

\* ------------------------------------------------------------------ state
Init ==
    /\ tasks = <<>>
    /\ edges = <<>>
    /\ blocked = <<>>
    /\ history = <<>>
    /\ next_id = 1
    /\ config = Config
    /\ last = Report("ok", <<>>)
    /\ file = <<>>
    /\ issued = {}
    /\ everIssued = {}
    /\ merges = 0
    /\ completed = {}
    /\ pub = NoPublish

\* an add that, given a blocker, goes on to put the task into the pool as well
Add_both(title, blocker, now) ==
    /\ next_id' = next_id + 1
    /\ blocked' = IF blocker # ""
                  THEN Append(blocked, BlockedTask(next_id, title, blocker, now))
                  ELSE blocked
    /\ tasks' = [k \in DOMAIN tasks \cup {StrOf(next_id)} |->
                    IF k = StrOf(next_id) THEN Task(next_id, title, FALSE, now)
                    ELSE tasks[k]]
    /\ last' = Report("ok", <<>>)
    /\ issued' = issued \cup {next_id}
    /\ everIssued' = everIssued \cup {next_id}
    /\ UNCHANGED <<edges, history, config, file, merges, completed, pub>>

\* wip add TITLE [--blocked B]
Add(title, blocker, now) ==
    /\ next_id' = next_id + 1
    /\ IF blocker # ""
       THEN /\ blocked' = Append(blocked, BlockedTask(next_id, title, blocker, now))
            /\ tasks' = tasks
       ELSE /\ tasks' = [k \in DOMAIN tasks \cup {StrOf(next_id)} |->
                            IF k = StrOf(next_id) THEN Task(next_id, title, FALSE, now)
                            ELSE tasks[k]]
            /\ blocked' = blocked
    /\ last' = Report("ok", <<>>)
    /\ issued' = issued \cup {next_id}
    /\ everIssued' = everIssued \cup {next_id}
    /\ UNCHANGED <<edges, history, config, file, merges, completed, pub>>

\* the checks of link with the self-loop looked at before the two lookups
link_check_self_first(from_id, to_id) ==
    IF from_id = to_id THEN "SelfLoop"
    ELSE IF ~task_exists(from_id) THEN "NotFound"
    ELSE IF ~task_exists(to_id) THEN "NotFound"
    ELSE IF has_edge(from_id, to_id) THEN "DuplicateEdge"
    ELSE IF would_create_cycle(edges, from_id, to_id) THEN "CycleDetected"
    ELSE "ok"

\* the checks of link, in order; "ok" when none fails
link_check(from_id, to_id) ==
    IF ~task_exists(from_id) THEN "NotFound"
    ELSE IF ~task_exists(to_id) THEN "NotFound"
    ELSE IF from_id = to_id THEN "SelfLoop"
    ELSE IF has_edge(from_id, to_id) THEN "DuplicateEdge"
    ELSE IF would_create_cycle(edges, from_id, to_id) THEN "CycleDetected"
    ELSE "ok"

\* the id a NotFound of link names
link_missing(from_id, to_id) == IF ~task_exists(from_id) THEN <<from_id>> ELSE <<to_id>>

\* wip link FROM_ID TO_ID
Link(from_id, to_id) ==
    LET res == link_check(from_id, to_id)
        es == Append(edges, Edge(from_id, to_id))
    IN  IF res # "ok"
        THEN /\ last' = Report(res,
                               IF res = "NotFound" THEN link_missing(from_id, to_id) ELSE <<>>)
             /\ UNCHANGED <<persisted, book>>
        ELSE /\ edges' = es
             /\ IF has_blocked(from_id)
                THEN \E order \in Perms({to_id} \cup get_all_descendants(es, to_id)) :
                        LET st == MoveAll([tasks |-> tasks, blocked |-> blocked, moved |-> <<>>],
                                          order, 1, from_id)
                        IN  /\ tasks' = st.tasks
                            /\ blocked' = st.blocked
                            /\ last' = Report("ok", st.moved)
                ELSE /\ last' = Report("ok", <<>>)
                     /\ UNCHANGED <<tasks, blocked>>
             /\ UNCHANGED <<history, next_id, config, book>>

\* an unlink that takes the pair in either direction
Unlink_either(from_id, to_id) ==
    IF ~(has_edge(from_id, to_id) \/ has_edge(to_id, from_id))
    THEN /\ last' = Report("EdgeNotFound", <<>>)
         /\ UNCHANGED <<persisted, book>>
    ELSE /\ edges' = SelectSeq(edges, LAMBDA e : {e.from_id, e.to_id} # {from_id, to_id})
         /\ last' = Report("ok", <<>>)
         /\ UNCHANGED <<tasks, blocked, history, next_id, config, book>>

\* an unlink that puts a held TO_ID back into the pool
Unlink_release(from_id, to_id) ==
    IF ~has_edge(from_id, to_id)
    THEN /\ last' = Report("EdgeNotFound", <<>>)
         /\ UNCHANGED <<persisted, book>>
    ELSE /\ edges' = SelectSeq(edges, LAMBDA e : ~(e.from_id = from_id /\ e.to_id = to_id))
         /\ blocked' = SelectSeq(blocked, LAMBDA b : b.id # to_id)
         /\ tasks' = IF has_blocked(to_id)
                     THEN [k \in DOMAIN tasks \cup {StrOf(to_id)} |->
                              IF k = StrOf(to_id)
                              THEN Task(to_id, get_blocked(to_id).title, FALSE,
                                        get_blocked(to_id).created_at)
                              ELSE tasks[k]]
                     ELSE tasks
         /\ last' = Report("ok", <<>>)
         /\ UNCHANGED <<history, next_id, config, book>>

\* wip unlink FROM_ID TO_ID
Unlink(from_id, to_id) ==
    IF ~has_edge(from_id, to_id)
    THEN /\ last' = Report("EdgeNotFound", <<>>)
         /\ UNCHANGED <<persisted, book>>
    ELSE /\ edges' = SelectSeq(edges, LAMBDA e : ~(e.from_id = from_id /\ e.to_id = to_id))
         /\ last' = Report("ok", <<>>)
         /\ UNCHANGED <<tasks, blocked, history, next_id, config, book>>

\* a lookup that does not go on to look into held
pool_miss_plain(task_id) == "NotFound"

\* the lookup shared by mark active, inactive and done: the task is not in the pool
pool_miss(task_id) == IF has_blocked(task_id) THEN "OnHold" ELSE "NotFound"

Fail(res, info) ==
    /\ last' = Report(res, info)
    /\ UNCHANGED <<persisted, book>>

\* the checks of mark active without the look at the incoming edges
active_check_no_deps(task_id) ==
    IF ~has_task(task_id) THEN pool_miss(task_id)
    ELSE IF get_task(task_id).active THEN "noop"
    ELSE IF active_count >= config.max_active THEN "MaxActiveReached"
    ELSE "ok"

\* the checks of mark active with the ceiling looked at before the dependencies
active_check_ceiling_first(task_id) ==
    IF ~has_task(task_id) THEN pool_miss(task_id)
    ELSE IF get_task(task_id).active THEN "noop"
    ELSE IF active_count >= config.max_active THEN "MaxActiveReached"
    ELSE IF get_edges_to(edges, task_id) # <<>> THEN "DependencyIncomplete"
    ELSE "ok"

\* the checks of mark active, in order
active_check(task_id) ==
    IF ~has_task(task_id) THEN pool_miss(task_id)
    ELSE IF get_task(task_id).active THEN "noop"
    ELSE IF get_edges_to(edges, task_id) # <<>> THEN "DependencyIncomplete"
    ELSE IF active_count >= config.max_active THEN "MaxActiveReached"
    ELSE "ok"

SetActive(task_id, flag) ==
    [tasks EXCEPT ![StrOf(task_id)] = [@ EXCEPT !.active = flag]]

\* wip mark TASK_ID active
MarkActive(task_id) ==
    LET res == active_check(task_id)
    IN  IF res # "ok"
        THEN Fail(res,
                  IF res = "DependencyIncomplete"
                  THEN FromIds(get_edges_to(edges, task_id)) ELSE <<>>)
        ELSE /\ tasks' = SetActive(task_id, TRUE)
             /\ last' = Report("ok", <<>>)
             /\ UNCHANGED <<edges, blocked, history, next_id, config, book>>

\* a mark inactive that, like mark active, refuses a task with an incoming edge
MarkInactive_checked(task_id) ==
    IF ~has_task(task_id) THEN Fail(pool_miss(task_id), <<>>)
    ELSE IF ~get_task(task_id).active THEN Fail("noop", <<>>)
    ELSE IF get_edges_to(edges, task_id) # <<>>
    THEN Fail("DependencyIncomplete", FromIds(get_edges_to(edges, task_id)))
    ELSE /\ tasks' = SetActive(task_id, FALSE)
         /\ last' = Report("ok", <<>>)
         /\ UNCHANGED <<edges, blocked, history, next_id, config, book>>

\* wip mark TASK_ID inactive
MarkInactive(task_id) ==
    IF ~has_task(task_id) THEN Fail(pool_miss(task_id), <<>>)
    ELSE IF ~get_task(task_id).active THEN Fail("noop", <<>>)
    ELSE /\ tasks' = SetActive(task_id, FALSE)
         /\ last' = Report("ok", <<>>)
         /\ UNCHANGED <<edges, blocked, history, next_id, config, book>>

\* an edge filter that drops the edges into task_id and keeps the edges out of it
drop_edges_into(es, task_id) == SelectSeq(es, LAMBDA e : e.to_id # task_id)

\* the edge filter of done and of gone: drop every edge touching task_id
drop_edges(es, task_id) ==
    SelectSeq(es, LAMBDA e : e.from_id # task_id /\ e.to_id # task_id)

remove_task(task_id) == [k \in DOMAIN tasks \ {StrOf(task_id)} |-> tasks[k]]

\* wip mark TASK_ID done; when it succeeds the note completed is left to the
\* specification
MarkDone(task_id, now) ==
    IF ~has_task(task_id) THEN Fail(pool_miss(task_id), <<>>)
    ELSE IF get_edges_to(edges, task_id) # <<>>
    THEN Fail("DependencyIncomplete", FromIds(get_edges_to(edges, task_id)))
    ELSE /\ tasks' = remove_task(task_id)
         /\ edges' = drop_edges(edges, task_id)
         /\ history' = Append(history, HistoryEntry(task_id, get_task(task_id).title, now,
                                                    get_task(task_id).created_at))
         /\ last' = Report("ok", <<>>)
         /\ UNCHANGED <<blocked, next_id, config, file, issued, everIssued, merges, pub>>

\* a mark hold that looks the task up before it looks at the blocker option
MarkHold_lookup_first(task_id, by) ==
    IF ~has_task(task_id)
    THEN Fail(IF has_blocked(task_id) THEN "AlreadyOnHold" ELSE "NotFound", <<>>)
    ELSE IF by = "" THEN Fail("MissingBlocker", <<>>)
    ELSE /\ tasks' = remove_task(task_id)
         /\ blocked' = Append(blocked, BlockedTask(task_id, get_task(task_id).title, by,
                                                   get_task(task_id).created_at))
         /\ last' = Report("ok", <<>>)
         /\ UNCHANGED <<edges, history, next_id, config, book>>

\* a mark hold that moves the task before it looks at the blocker option
MarkHold_act_first(task_id, by) ==
    IF ~has_task(task_id)
    THEN Fail(IF has_blocked(task_id) THEN "AlreadyOnHold" ELSE "NotFound", <<>>)
    ELSE /\ tasks' = remove_task(task_id)
         /\ blocked' = Append(blocked, BlockedTask(task_id, get_task(task_id).title, by,
                                                   get_task(task_id).created_at))
         /\ last' = Report(IF by = "" THEN "MissingBlocker" ELSE "ok", <<>>)
         /\ UNCHANGED <<edges, history, next_id, config, book>>

\* wip mark TASK_ID hold [--by BY]
MarkHold(task_id, by) ==
    IF by = "" THEN Fail("MissingBlocker", <<>>)
    ELSE IF ~has_task(task_id)
    THEN Fail(IF has_blocked(task_id) THEN "AlreadyOnHold" ELSE "NotFound", <<>>)
    ELSE /\ tasks' = remove_task(task_id)
         /\ blocked' = Append(blocked, BlockedTask(task_id, get_task(task_id).title, by,
                                                   get_task(task_id).created_at))
         /\ last' = Report("ok", <<>>)
         /\ UNCHANGED <<edges, history, next_id, config, book>>

\* a mark release that builds the task without the created_at of the held
\* entry (the field takes its default, the empty string, written 0)
MarkRelease_no_created(task_id) ==
    IF ~has_blocked(task_id) THEN Fail("NotFound", <<>>)
    ELSE /\ blocked' = SelectSeq(blocked, LAMBDA b : b.id # task_id)
         /\ tasks' = [k \in DOMAIN tasks \cup {StrOf(task_id)} |->
                         IF k = StrOf(task_id)
                         THEN Task(task_id, get_blocked(task_id).title, FALSE, 0)
                         ELSE tasks[k]]
         /\ last' = Report("ok", <<>>)
         /\ UNCHANGED <<edges, history, next_id, config, book>>

\* a mark release that, for an id not held, takes its entry out of history and
\* puts it back into the pool
MarkRelease_from_history(task_id) ==
    IF ~has_blocked(task_id)
    THEN IF \E i \in 1..Len(history) : history[i].id = task_id
         THEN LET i == CHOOSE j \in 1..Len(history) : history[j].id = task_id
              IN  /\ history' = SubSeq(history, 1, i - 1) \o SubSeq(history, i + 1, Len(history))
                  /\ tasks' = [k \in DOMAIN tasks \cup {StrOf(task_id)} |->
                                  IF k = StrOf(task_id)
                                  THEN Task(task_id, history[i].title, FALSE,
                                            history[i].created_at)
                                  ELSE tasks[k]]
                  /\ last' = Report("ok", <<>>)
                  /\ UNCHANGED <<edges, blocked, next_id, config, book>>
         ELSE Fail("NotFound", <<>>)
    ELSE /\ blocked' = SelectSeq(blocked, LAMBDA b : b.id # task_id)
         /\ tasks' = [k \in DOMAIN tasks \cup {StrOf(task_id)} |->
                         IF k = StrOf(task_id)
                         THEN Task(task_id, get_blocked(task_id).title, FALSE,
                                   get_blocked(task_id).created_at)
                         ELSE tasks[k]]
         /\ last' = Report("ok", <<>>)
         /\ UNCHANGED <<edges, history, next_id, config, book>>

\* a release that brings the task back as an active one
MarkRelease_active(task_id) ==
    IF ~has_blocked(task_id) THEN Fail("NotFound", <<>>)
    ELSE /\ blocked' = SelectSeq(blocked, LAMBDA b : b.id # task_id)
         /\ tasks' = [k \in DOMAIN tasks \cup {StrOf(task_id)} |->
                         IF k = StrOf(task_id)
                         THEN Task(task_id, get_blocked(task_id).title, TRUE,
                                   get_blocked(task_id).created_at)
                         ELSE tasks[k]]
         /\ last' = Report("ok", <<>>)
         /\ UNCHANGED <<edges, history, next_id, config, book>>

\* wip mark TASK_ID release
MarkRelease(task_id) ==
    IF ~has_blocked(task_id) THEN Fail("NotFound", <<>>)
    ELSE /\ blocked' = SelectSeq(blocked, LAMBDA b : b.id # task_id)
         /\ tasks' = [k \in DOMAIN tasks \cup {StrOf(task_id)} |->
                         IF k = StrOf(task_id)
                         THEN Task(task_id, get_blocked(task_id).title, FALSE,
                                   get_blocked(task_id).created_at)
                         ELSE tasks[k]]
         /\ last' = Report("ok", <<>>)
         /\ UNCHANGED <<edges, history, next_id, config, book>>

\* the index of the first entry of s with that id, 0 when there is none
first_index(s, task_id) ==
    IF \E i \in 1..Len(s) : s[i].id = task_id
    THEN CHOOSE i \in 1..Len(s) : s[i].id = task_id /\ \A j \in 1..(i - 1) : s[j].id # task_id
    ELSE 0

\* the held branch of mark gone: the entry is popped, the edge list is not touched
gone_blocked_edges(es, task_id) == es

\* wip mark TASK_ID gone
MarkGone(task_id) ==
    IF StrOf(task_id) \in DOMAIN tasks
    THEN /\ tasks' = remove_task(task_id)
         /\ edges' = drop_edges(edges, task_id)
         /\ last' = Report("ok", <<>>)
         /\ UNCHANGED <<blocked, history, next_id, config, book>>
    ELSE IF first_index(blocked, task_id) # 0
    THEN /\ blocked' = RemoveAt(blocked, first_index(blocked, task_id))
         /\ edges' = gone_blocked_edges(edges, task_id)
         /\ last' = Report("ok", <<>>)
         /\ UNCHANGED <<tasks, history, next_id, config, book>>
    ELSE IF first_index(history, task_id) # 0
    THEN /\ history' = RemoveAt(history, first_index(history, task_id))
         /\ last' = Report("ok", <<>>)
         /\ UNCHANGED <<tasks, edges, blocked, next_id, config, book>>
    ELSE Fail("NotFound", <<>>)

\* int(value): the value parses as an integer
is_int(value) == \E n \in DOMAIN Numerals : Numerals[n] = value

int(value) == CHOOSE n \in DOMAIN Numerals : Numerals[n] = value

\* a check of config KEY VALUE that takes any integer
config_check_no_min(key, value) ==
    IF key \notin {"max_active", "stale_days"} THEN "UnknownKey"
    ELSE IF ~is_int(value) THEN "InvalidConfigValue"
    ELSE "ok"

\* the outcome of config KEY VALUE
config_check(key, value) ==
    IF key \notin {"max_active", "stale_days"} THEN "UnknownKey"
    ELSE IF ~is_int(value) THEN "InvalidConfigValue"
    ELSE IF int(value) < 1 THEN "InvalidConfigValue"
    ELSE "ok"

\* wip config KEY VALUE
SetConfig(key, value) ==
    LET res == config_check(key, value)
    IN  IF res # "ok"
        THEN /\ last' = Report(res, <<>>)
             /\ UNCHANGED <<persisted, book>>
        ELSE /\ config' = IF key = "max_active"
                          THEN [config EXCEPT !.max_active = int(value)]
                          ELSE [config EXCEPT !.stale_days = int(value)]
             /\ last' = Report("ok", <<>>)
             /\ UNCHANGED <<tasks, edges, blocked, history, next_id, book>>

\* A command that is rejected, or that finds nothing to do, returns before
\* save_state: what follows it is what follows without it, so a behaviour is
\* followed up to its first such command.
Running == last.res = "ok"

\* the allocator has ids left under the bound
CanAdd == next_id <= MaxTasks

\* link(from_id, to_id) is rejected, or the edge list has room under the bound
CanLink(from_id, to_id) == link_check(from_id, to_id) # "ok" \/ Len(edges) < MaxEdges

\* the commands of the engine
Next ==
    \/ \E title \in Titles, blocker \in Blockers, now \in Times :
          Running /\ CanAdd /\ Add(title, blocker, now)
    \/ \E from_id \in Ids, to_id \in Ids :
          Running /\ CanLink(from_id, to_id) /\ Link(from_id, to_id)
    \/ \E from_id \in Ids, to_id \in Ids : Running /\ Unlink(from_id, to_id)
    \/ \E task_id \in Ids : Running /\ MarkActive(task_id)
    \/ \E task_id \in Ids : Running /\ MarkInactive(task_id)
    \/ \E task_id \in Ids, now \in DoneTimes :
          Running /\ MarkDone(task_id, now) /\ UNCHANGED completed
    \/ \E task_id \in Ids, by \in Blockers : Running /\ MarkHold(task_id, by)
    \/ \E task_id \in Ids : Running /\ MarkRelease(task_id)
    \/ \E task_id \in Ids : Running /\ MarkGone(task_id)
    \/ \E arg \in ConfigArgs : Running /\ SetConfig(arg[1], arg[2])

Spec == Init /\ [][Next]_vars

\* ------------------------------------------------------------------ save, load, reset
\* Task.to_dict, BlockedTask.to_dict and HistoryEntry.to_dict write the fields
\* under their own names; Edge.to_dict writes from_id and to_id as "from" and "to"
edge_to_dict(e) == [from |-> e.from_id, to |-> e.to_id]

\* a reading of an edge that takes "to" for from_id and "from" for to_id
edge_from_dict_swapped(d) == Edge(d.to, d.from)

edge_from_dict(d) == Edge(d.from, d.to)

\* data.get(key, default); a created_at is a time of Times, and 0 stands for
\* the empty string the code defaults to, "" for the None of a gist field
get(d, key, default) == IF key \in DOMAIN d THEN d[key] ELSE default

task_from_dict(d) == Task(d.id, d.title, get(d, "active", FALSE), get(d, "created_at", 0))

blocked_from_dict(d) == BlockedTask(d.id, d.title, d.blocker, get(d, "created_at", 0))

history_from_dict(d) == HistoryEntry(d.id, d.title, d.completed_at, get(d, "created_at", 0))

config_from_dict(d) ==
    [max_active |-> get(d, "max_active", 2),
     stale_days |-> get(d, "stale_days", 14),
     share |-> LET sh == get(d, "share", <<>>)
               IN  [enabled |-> get(sh, "enabled", FALSE),
                    gist_id |-> get(sh, "gist_id", ""),
                    gist_url |-> get(sh, "gist_url", "")]]

\* the State in hand, as a record
State == [tasks |-> tasks, edges |-> edges, blocked |-> blocked, history |-> history,
          next_id |-> next_id, config |-> config]

to_dict(st) ==
    [tasks |-> [k \in DOMAIN st.tasks |-> st.tasks[k]],
     edges |-> [i \in 1..Len(st.edges) |-> edge_to_dict(st.edges[i])],
     blocked |-> st.blocked,
     history |-> st.history,
     next_id |-> st.next_id,
     config |-> st.config]

from_dict(d) ==
    [tasks |-> LET t == get(d, "tasks", <<>>) IN [k \in DOMAIN t |-> task_from_dict(t[k])],
     edges |-> LET e == get(d, "edges", <<>>) IN [i \in 1..Len(e) |-> edge_from_dict(e[i])],
     blocked |-> LET b == get(d, "blocked", <<>>)
                 IN  [i \in 1..Len(b) |-> blocked_from_dict(b[i])],
     history |-> LET h == get(d, "history", <<>>)
                 IN  [i \in 1..Len(h) |-> history_from_dict(h[i])],
     next_id |-> get(d, "next_id", 1),
     config |-> config_from_dict(get(d, "config", <<>>))]

\* int(tid) for a key of the tasks dict
int_key(tid) == CHOOSE n \in DOMAIN Numerals : Numerals[n] = tid

\* an ordering of all_ids that runs from the largest id down
sorted_desc(S) ==
    CHOOSE q \in [1..Cardinality(S) -> S] :
        \A i, j \in 1..Cardinality(S) : i < j => q[i] > q[j]

RECURSIVE sorted(_)
\* sorted(all_ids), ascending
sorted(S) ==
    IF S = {} THEN <<>>
    ELSE LET m == CHOOSE x \in S : \A y \in S : x <= y IN <<m>> \o sorted(S \ {m})

\* a loop that maps the ids and hands back the counter it was given
remap_loop_stale(ids, i, id_map, nid) ==
    [id_map |-> [o \in Range(ids) |-> nid + Cardinality({x \in Range(ids) : x < o})],
     next_id |-> nid]

RECURSIVE remap_loop(_, _, _, _)
\* the loop of _remap_state that fills id_map: each old id, in order, takes
\* next_id, which is then incremented
remap_loop(ids, i, id_map, nid) ==
    IF i > Len(ids) THEN [id_map |-> id_map, next_id |-> nid]
    ELSE remap_loop(ids, i + 1,
                    [o \in DOMAIN id_map \cup {ids[i]} |->
                        IF o = ids[i] THEN nid ELSE id_map[o]],
                    nid + 1)

\* the ids _remap_state collects from the imported tasks, blocked and history
all_ids(imported) ==
    {int_key(tid) : tid \in DOMAIN imported.tasks}
        \cup {imported.blocked[i].id : i \in 1..Len(imported.blocked)}
        \cup {imported.history[i].id : i \in 1..Len(imported.history)}

\* _remap_state(imported, start_id): the remapped state, with its id_map
remap_state(imported, start_id) ==
    LET r == remap_loop(sorted(all_ids(imported)), 1, <<>>, start_id)
        id_map == r.id_map
        kept == SelectSeq(imported.edges,
                          LAMBDA e : e.from_id \in DOMAIN id_map /\ e.to_id \in DOMAIN id_map)
    IN  [tasks |-> [k \in {StrOf(id_map[int_key(tid)]) : tid \in DOMAIN imported.tasks} |->
                      LET tid == CHOOSE t \in DOMAIN imported.tasks :
                                    StrOf(id_map[int_key(t)]) = k
                      IN  Task(id_map[int_key(tid)], imported.tasks[tid].title,
                               imported.tasks[tid].active, imported.tasks[tid].created_at)],
         edges |-> [i \in 1..Len(kept) |->
                      Edge(id_map[kept[i].from_id], id_map[kept[i].to_id])],
         blocked |-> [i \in 1..Len(imported.blocked) |->
                        [imported.blocked[i] EXCEPT !.id = id_map[@]]],
         history |-> [i \in 1..Len(imported.history) |->
                        [imported.history[i] EXCEPT !.id = id_map[@]]],
         next_id |-> r.next_id,
         config |-> imported.config,
         id_map |-> id_map]

\* dict.update: the entries of b replace and extend those of a
update(a, b) == [k \in DOMAIN a \cup DOMAIN b |-> IF k \in DOMAIN b THEN b[k] ELSE a[k]]

\* wip save FILE
Save ==
    /\ file' = <<to_dict(State)>>
    /\ last' = Report("ok", <<>>)
    /\ UNCHANGED <<persisted, issued, everIssued, merges, completed, pub>>

\* a merge that unions the imported collections as they come, ids not remapped
LoadMerge_plain ==
    LET imported == from_dict(file[1])
        new_ids == all_ids(imported)
    IN  /\ tasks' = update(tasks, imported.tasks)
        /\ edges' = edges \o imported.edges
        /\ blocked' = blocked \o imported.blocked
        /\ history' = history \o imported.history
        /\ next_id' = IF imported.next_id > next_id THEN imported.next_id ELSE next_id
        /\ last' = Report("ok", <<>>)
        /\ issued' = issued \cup new_ids
        /\ everIssued' = everIssued \cup new_ids
        /\ merges' = merges + 1
        /\ file' = IF merges' < MaxMerges THEN file ELSE <<>>
        /\ UNCHANGED <<config, completed, pub>>

\* wip load FILE --merge, FILE written by save. The command leaves FILE alone;
\* the snapshot is dropped here once no further import can read it, so that
\* the states after the last import are not told apart by it
LoadMerge ==
    LET imported == from_dict(file[1])
        remapped == remap_state(imported, next_id)
        new_ids == {remapped.id_map[o] : o \in DOMAIN remapped.id_map}
    IN  /\ tasks' = update(tasks, remapped.tasks)
        /\ edges' = edges \o remapped.edges
        /\ blocked' = blocked \o remapped.blocked
        /\ history' = history \o remapped.history
        /\ next_id' = remapped.next_id
        /\ last' = Report("ok", <<>>)
        /\ issued' = issued \cup new_ids
        /\ everIssued' = everIssued \cup new_ids
        /\ merges' = merges + 1
        /\ file' = IF merges' < MaxMerges THEN file ELSE <<>>
        /\ UNCHANGED <<config, completed, pub>>

\* a reset that starts from a State() with its default config
Reset_defaults ==
    /\ tasks' = <<>>
    /\ edges' = <<>>
    /\ blocked' = <<>>
    /\ history' = <<>>
    /\ next_id' = 1
    /\ config' = Config
    /\ last' = Report("ok", <<>>)
    /\ issued' = {}
    /\ UNCHANGED <<file, everIssued, merges, completed, pub>>

\* wip reset
Reset ==
    /\ tasks' = <<>>
    /\ edges' = <<>>
    /\ blocked' = <<>>
    /\ history' = <<>>
    /\ next_id' = 1
    /\ last' = Report("ok", <<>>)
    /\ issued' = {}
    /\ UNCHANGED <<config, file, everIssued, merges, completed, pub>>

\* the number of entries of the state in hand
entries == Cardinality(DOMAIN tasks) + Len(blocked) + Len(history)

\* one snapshot is written, while an import can still read it
CanSave == file = <<>> /\ merges < MaxMerges /\ entries >= 1

\* a snapshot is there, and the ids it brings stay under the bound
CanMerge ==
    /\ file # <<>>
    /\ merges < MaxMerges
    /\ next_id + Cardinality(all_ids(from_dict(file[1]))) - 1 <= MaxTasks

\* add hands out at most MaxSaved ids from a fresh state, the import the others
CanAddIO == next_id <= MaxSaved

CanLinkIO(from_id, to_id) == link_check(from_id, to_id) # "ok" \/ Len(edges) < MaxEdges

\* the engine with save, merge import and reset
NextIO ==
    \/ \E title \in Titles, blocker \in Blockers, now \in Times :
          Running /\ CanAddIO /\ Add(title, blocker, now)
    \/ \E from_id \in Ids, to_id \in Ids :
          Running /\ CanLinkIO(from_id, to_id) /\ Link(from_id, to_id)
    \/ \E from_id \in Ids, to_id \in Ids : Running /\ Unlink(from_id, to_id)
    \/ \E task_id \in Ids : Running /\ MarkActive(task_id)
    \/ \E task_id \in Ids : Running /\ MarkInactive(task_id)
    \/ \E task_id \in Ids, now \in DoneTimes :
          Running /\ MarkDone(task_id, now) /\ UNCHANGED completed
    \/ \E task_id \in Ids, by \in Blockers : Running /\ MarkHold(task_id, by)
    \/ \E task_id \in Ids : Running /\ MarkRelease(task_id)
    \/ \E task_id \in Ids : Running /\ MarkGone(task_id)
    \/ \E arg \in ConfigArgs : Running /\ SetConfig(arg[1], arg[2])
    \/ Running /\ CanSave /\ Save
    \/ Running /\ CanMerge /\ LoadMerge
    \/ Running /\ entries >= 1 /\ Reset

SpecIO == Init /\ [][NextIO]_vars

\* ------------------------------------------------------------------ load without --merge
\* a load that puts the imported tasks over the tasks in hand, as dict.update does
LoadReplace_update ==
    LET imported == from_dict(file[1])
    IN  /\ tasks' = update(tasks, imported.tasks)
        /\ edges' = imported.edges
        /\ blocked' = imported.blocked
        /\ history' = imported.history
        /\ next_id' = imported.next_id
        /\ config' = imported.config
        /\ last' = Report("ok", <<>>)
        /\ issued' = all_ids(imported)
        /\ everIssued' = everIssued \cup all_ids(imported)
        /\ merges' = merges + 1
        /\ file' = IF merges' < MaxMerges THEN file ELSE <<>>
        /\ UNCHANGED <<completed, pub>>

\* wip load FILE, FILE written by save: save_state(imported_state).  The ids in
\* hand are from now on those of the snapshot; as with --merge, the snapshot is
\* dropped here once no further import can read it
LoadReplace ==
    LET imported == from_dict(file[1])
    IN  /\ tasks' = imported.tasks
        /\ edges' = imported.edges
        /\ blocked' = imported.blocked
        /\ history' = imported.history
        /\ next_id' = imported.next_id
        /\ config' = imported.config
        /\ last' = Report("ok", <<>>)
        /\ issued' = all_ids(imported)
        /\ everIssued' = everIssued \cup all_ids(imported)
        /\ merges' = merges + 1
        /\ file' = IF merges' < MaxMerges THEN file ELSE <<>>
        /\ UNCHANGED <<completed, pub>>

\* a snapshot is there and an import is still allowed
CanLoad == file # <<>> /\ merges < MaxMerges

\* the engine with save and load
NextLoad ==
    \/ \E title \in Titles, blocker \in Blockers, now \in Times :
          Running /\ CanAddIO /\ Add(title, blocker, now)
    \/ \E from_id \in Ids, to_id \in Ids :
          Running /\ CanLinkIO(from_id, to_id) /\ Link(from_id, to_id)
    \/ \E from_id \in Ids, to_id \in Ids : Running /\ Unlink(from_id, to_id)
    \/ \E task_id \in Ids : Running /\ MarkActive(task_id)
    \/ \E task_id \in Ids : Running /\ MarkInactive(task_id)
    \/ \E task_id \in Ids, now \in DoneTimes :
          Running /\ MarkDone(task_id, now) /\ UNCHANGED completed
    \/ \E task_id \in Ids, by \in Blockers : Running /\ MarkHold(task_id, by)
    \/ \E task_id \in Ids : Running /\ MarkRelease(task_id)
    \/ \E task_id \in Ids : Running /\ MarkGone(task_id)
    \/ \E arg \in ConfigArgs : Running /\ SetConfig(arg[1], arg[2])
    \/ Running /\ CanSave /\ Save
    \/ Running /\ CanLoad /\ LoadReplace

SpecLoad == Init /\ [][NextLoad]_vars

\* ------------------------------------------------------------------ history
\* The commands that create, move or delete entries and edges (mark active,
\* mark inactive and config change an active flag or the config, which none
\* of these commands reads), with a note kept of every id that a successful
\* mark done has put into history; the note outlives gone and reset.
NextHistory ==
    \/ \E title \in Titles, blocker \in Blockers, now \in Times :
          Running /\ CanAddIO /\ Add(title, blocker, now)
    \/ \E from_id \in Ids, to_id \in Ids :
          Running /\ CanLinkIO(from_id, to_id) /\ Link(from_id, to_id)
    \/ \E from_id \in Ids, to_id \in Ids : Running /\ Unlink(from_id, to_id)
    \/ \E task_id \in Ids, now \in DoneTimes :
          /\ Running
          /\ MarkDone(task_id, now)
          /\ completed' = IF last'.res = "ok" THEN completed \cup {task_id} ELSE completed
    \/ \E task_id \in Ids, by \in Blockers : Running /\ MarkHold(task_id, by)
    \/ \E task_id \in Ids : Running /\ MarkRelease(task_id)
    \/ \E task_id \in Ids : Running /\ MarkGone(task_id)
    \/ Running /\ CanSave /\ Save
    \/ Running /\ CanMerge /\ LoadMerge
    \/ Running /\ entries >= 1 /\ Reset

SpecHistory == Init /\ [][NextHistory]_vars

\* ------------------------------------------------------------------ remap
\* _remap_state as a function of its two arguments.  The snapshot is any state
\* file the commands can leave behind over the ids 1..MaxRemapIds: each id is
\* gone, in the pool (inactive or active), held or in history; the edges are
\* distinct, acyclic and touch no history id (done removes them), and may
\* touch a gone id (gone on a held task keeps them); at most max_active tasks
\* are active.  The state in hand is empty with next_id = start, the state
\* after start - 1 tasks were added and marked gone.
RemapIds == 1..MaxRemapIds

Places == {"gone", "pool", "active", "held", "history"}

RemapPairs(place) ==
    {p \in RemapIds \X RemapIds :
        p[1] # p[2] /\ place[p[1]] # "history" /\ place[p[2]] # "history"}

RemapEdges(place) ==
    {<<>>} \cup {<<Edge(p[1], p[2])>> : p \in RemapPairs(place)}
           \cup {<<Edge(pq[1][1], pq[1][2]), Edge(pq[2][1], pq[2][2])>> :
                    pq \in {r \in RemapPairs(place) \X RemapPairs(place) :
                              r[2] # r[1] /\ r[2] # <<r[1][2], r[1][1]>>}}

Snapshot(place, es, held, done) ==
    [tasks |-> [k \in {StrOf(i) : i \in {j \in RemapIds : place[j] \in {"pool", "active"}}} |->
                  LET i == CHOOSE j \in RemapIds : StrOf(j) = k
                  IN  Task(i, "A", place[i] = "active", 1)],
     edges |-> es,
     blocked |-> [n \in 1..Len(held) |-> BlockedTask(held[n], "A", "x", 1)],
     history |-> [n \in 1..Len(done) |-> HistoryEntry(done[n], "A", 2, 1)],
     next_id |-> MaxRemapIds + 1,
     config |-> Config]

InitRemap ==
    \E place \in [RemapIds -> Places], start \in 1..MaxStart :
      \E es \in RemapEdges(place),
         held \in Perms({i \in RemapIds : place[i] = "held"}),
         done \in Perms({i \in RemapIds : place[i] = "history"}) :
        /\ Cardinality({i \in RemapIds : place[i] = "active"}) <= Config.max_active
        /\ \E i \in RemapIds : place[i] # "gone"
        /\ file = <<to_dict(Snapshot(place, es, held, done))>>
        /\ tasks = <<>>
        /\ edges = <<>>
        /\ blocked = <<>>
        /\ history = <<>>
        /\ next_id = start
        /\ config = Config
        /\ last = Report("ok", <<>>)
        /\ issued = 1..(start - 1)
        /\ everIssued = 1..(start - 1)
        /\ merges = 0
        /\ completed = {}
        /\ pub = NoPublish

NextRemap == file # <<>> /\ merges < MaxMerges /\ LoadMerge

SpecRemap == InitRemap /\ [][NextRemap]_vars

\* ------------------------------------------------------------------ cascade
\* The commands that shape a cascade (add to the pool or to held, link,
\* release), over one more id and one more edge, so that a held task is linked
\* to a task with descendants two edges away.
CascadeIds == 1..MaxCascadeTasks

NextCascade ==
    \/ \E title \in Titles, blocker \in Blockers, now \in Times :
          Running /\ next_id <= MaxCascadeTasks /\ Add(title, blocker, now)
    \/ \E from_id \in CascadeIds, to_id \in CascadeIds :
          /\ Running
          /\ link_check(from_id, to_id) # "ok" \/ Len(edges) < MaxCascadeEdges
          /\ Link(from_id, to_id)
    \/ \E task_id \in CascadeIds : Running /\ MarkRelease(task_id)

SpecCascade == Init /\ [][NextCascade]_vars

\* ------------------------------------------------------------------ views
\* wip status (render_dag, and render_state_md alike): the groups are computed
\* from the state that was loaded; nothing is saved.
active_ids == {int_key(k) : k \in {j \in DOMAIN tasks : tasks[j].active}}

inactive_ids == {int_key(k) : k \in {j \in DOMAIN tasks : ~tasks[j].active}}

blocked_ids == {blocked[i].id : i \in 1..Len(blocked)}

\* a traversal that follows only the edges that leave a pool task
get_descendants_pool(task_id, es) ==
    DescLoop(SelectSeq(es, LAMBDA e : has_task(e.from_id)), <<task_id>>, {})

\* _get_descendants of render.py and render_md.py: the loop of
\* _get_all_descendants
get_descendants(task_id, es) == DescLoop(es, <<task_id>>, {})

active_workflow_ids ==
    UNION {get_descendants(active_id, edges) \cap inactive_ids : active_id \in active_ids}

backlog_ids == inactive_ids \ active_workflow_ids

\* wip status: what is shown is reported as the four groups
Status ==
    /\ last' = IF tasks = <<>> /\ blocked = <<>>
               THEN Report("empty", <<>>)
               ELSE Report("shown",
                           <<active_ids, active_workflow_ids, backlog_ids, blocked_ids>>)
    /\ UNCHANGED <<persisted, book>>

\* the commands of the engine, and status
NextView ==
    \/ \E title \in Titles, blocker \in Blockers, now \in Times :
          Running /\ CanAdd /\ Add(title, blocker, now)
    \/ \E from_id \in Ids, to_id \in Ids :
          Running /\ CanLink(from_id, to_id) /\ Link(from_id, to_id)
    \/ \E from_id \in Ids, to_id \in Ids : Running /\ Unlink(from_id, to_id)
    \/ \E task_id \in Ids : Running /\ MarkActive(task_id)
    \/ \E task_id \in Ids : Running /\ MarkInactive(task_id)
    \/ \E task_id \in Ids, now \in DoneTimes :
          Running /\ MarkDone(task_id, now) /\ UNCHANGED completed
    \/ \E task_id \in Ids, by \in Blockers : Running /\ MarkHold(task_id, by)
    \/ \E task_id \in Ids : Running /\ MarkRelease(task_id)
    \/ \E task_id \in Ids : Running /\ MarkGone(task_id)
    \/ \E arg \in ConfigArgs : Running /\ SetConfig(arg[1], arg[2])
    \/ Running /\ Status

SpecView == Init /\ [][NextView]_vars

\* ------------------------------------------------------------------ trees
\* The tree builders of render.py (_build_dag_content, _build_dag_content_simple)
\* and of render_md.py (_render_task_tree_md) as functions of an id set and an
\* edge list.  A line is the id it shows and the depth it is shown at.
\* the depth beyond which add_lines and add_tree return at once
DepthCap == 10
\* the ids of a chain, and the edges of a drawn edge list
MaxChain == 12
MaxTreeEdges == 3

\* children and parents: the edges with both endpoints in task_ids, in list order
children(task_ids, es) ==
    [tid \in task_ids |->
        ToIds(SelectSeq(es, LAMBDA e : e.from_id = tid /\ e.to_id \in task_ids))]

parents(task_ids, es) ==
    [tid \in task_ids |->
        FromIds(SelectSeq(es, LAMBDA e : e.to_id = tid /\ e.from_id \in task_ids))]

isolated_ids(task_ids, es) ==
    {tid \in task_ids : children(task_ids, es)[tid] = <<>> /\ parents(task_ids, es)[tid] = <<>>}

linked_ids(task_ids, es) == task_ids \ isolated_ids(task_ids, es)

roots(task_ids, es) ==
    sorted({tid \in linked_ids(task_ids, es) : parents(task_ids, es)[tid] = <<>>})

RECURSIVE add_lines(_, _, _, _)
RECURSIVE add_each(_, _, _, _, _)
\* add_lines (add_tree in render_md.py) on st = [visited, lines]: a visited id
\* or a depth over the cap returns at once; else the id is marked, its line is
\* appended and the children follow in ascending order, one level down (a
\* child listed twice returns at once the second time)
add_lines(ch, task_id, depth, st) ==
    IF task_id \in st.visited \/ depth > DepthCap THEN st
    ELSE add_each(ch, sorted(Range(ch[task_id])), 1, depth + 1,
                  [visited |-> st.visited \cup {task_id},
                   lines |-> Append(st.lines, [id |-> task_id, depth |-> depth])])

\* a for loop that calls add_lines on ids[i], ids[i + 1], ... at that depth
add_each(ch, ids, i, depth, st) ==
    IF i > Len(ids) THEN st
    ELSE add_each(ch, ids, i + 1, depth, add_lines(ch, ids[i], depth, st))

\* the body the three builders share; sweep is the loop "Add any unvisited
\* linked tasks" that follows the roots
tree_lines(task_ids, es, sweep) ==
    IF task_ids = {} THEN <<>>
    ELSE LET ch == children(task_ids, es)
             fromRoots == add_each(ch, roots(task_ids, es), 1, 0,
                                   [visited |-> {}, lines |-> <<>>])
             swept == IF sweep
                      THEN add_each(ch, sorted(linked_ids(task_ids, es)), 1, 0, fromRoots)
                      ELSE fromRoots
             alone == sorted(isolated_ids(task_ids, es))
         IN  swept.lines \o [i \in 1..Len(alone) |-> [id |-> alone[i], depth |-> 0]]

build_dag_content(task_ids, es) == tree_lines(task_ids, es, TRUE)

build_dag_content_simple(task_ids, es) == tree_lines(task_ids, es, TRUE)

\* _render_task_tree_md has no loop after the roots
render_task_tree_md(task_ids, es) == tree_lines(task_ids, es, FALSE)

\* wip status, in either terminal, and the Markdown export of the same state:
\* the trees of the backlog group
ShowTrees ==
    /\ last' = Report("shown", <<build_dag_content(backlog_ids, edges),
                                 build_dag_content_simple(backlog_ids, edges),
                                 render_task_tree_md(backlog_ids, edges)>>)
    /\ UNCHANGED <<persisted, book>>

\* the edge lists of at most MaxTreeEdges distinct pairs over Ids, a pair of an
\* id with itself and pairs that close a cycle included
TreeEdgeLists ==
    {[i \in DOMAIN q |-> Edge(q[i][1], q[i][2])] :
        q \in {r \in UNION {[1..n -> Ids \X Ids] : n \in 0..MaxTreeEdges} :
                 \A i, j \in DOMAIN r : r[i] = r[j] => i = j}}

\* the chain 1 -> 2 -> ... -> n, closed by n -> 1 or not
Chain(n, closed) ==
    [i \in 1..(n - 1) |-> Edge(i, i + 1)] \o (IF closed THEN <<Edge(n, 1)>> ELSE <<>>)

\* a pool of inactive tasks with the given ids
Pool(ids) ==
    [k \in {Numerals[i] : i \in ids} |-> Task(int_key(k), "A", FALSE, 1)]

\* The state files the builders are given: any set of inactive pool tasks over
\* Ids with any edge list (a state file is read as it is, whoever wrote it),
\* and the chains that add and link build.
InitTree ==
    /\ \/ \E ids \in SUBSET Ids \ {{}}, es \in TreeEdgeLists :
             tasks = Pool(ids) /\ edges = es /\ next_id = MaxTasks + 1
       \/ \E n \in 1..MaxChain, closed \in BOOLEAN :
             tasks = Pool(1..n) /\ edges = Chain(n, closed) /\ next_id = n + 1
    /\ blocked = <<>>
    /\ history = <<>>
    /\ config = Config
    /\ last = Report("ok", <<>>)
    /\ file = <<>>
    /\ issued = {}
    /\ everIssued = {}
    /\ merges = 0
    /\ completed = {}
    /\ pub = NoPublish

NextTree == Running /\ ShowTrees

SpecTree == InitTree /\ [][NextTree]_vars

\* ------------------------------------------------------------------ load of any file
\* What json.loads yields, with its Python type: t is "object" (dict, v a
\* function of the keys), "array" (list, v a sequence), "string", "number", or
\* "invalid" for a text that json.loads rejects.
Obj(f) == [t |-> "object", v |-> f]

Arr(q) == [t |-> "array", v |-> q]

Str(x) == [t |-> "string", v |-> x]

Num(n) == [t |-> "number", v |-> n]

Invalid == [t |-> "invalid", v |-> <<>>]

\* a key left out of an object
Absent == [t |-> "absent", v |-> <<>>]

\* data.get(key, default) on a dict
py_get(d, key, default) == IF key \in DOMAIN d.v THEN d.v[key] ELSE default

\* the exception of data[key]: KeyError on a dict without the key, TypeError
\* on a list, a string or a number
subscript_raises(d, key) ==
    IF d.t = "object" THEN (IF key \in DOMAIN d.v THEN "none" ELSE "KeyError")
    ELSE "TypeError"

RECURSIVE first_raise(_, _)
\* the first exception, if any, of a sequence of outcomes
first_raise(outcomes, i) ==
    IF i > Len(outcomes) THEN "none"
    ELSE IF outcomes[i] # "none" THEN outcomes[i]
    ELSE first_raise(outcomes, i + 1)

\* Task.from_dict, Edge.from_dict, BlockedTask.from_dict and
\* HistoryEntry.from_dict subscript their required keys in this order; the
\* keys read with get raise nothing once a subscript went through
entry_raises(d, required) ==
    first_raise([i \in 1..Len(required) |-> subscript_raises(d, required[i])], 1)

\* "for x in value": the elements of a list, the keys of a dict and the
\* characters of a string; a number is not iterable
iter_raises(d) == IF d.t = "number" THEN "TypeError" ELSE "none"

iter_items(d) ==
    IF d.t = "array" THEN d.v
    ELSE IF d.t = "object"
    THEN LET ks == CHOOSE q \in [1..Cardinality(DOMAIN d.v) -> DOMAIN d.v] :
                       \A i, j \in DOMAIN q : q[i] = q[j] => i = j
         IN  [i \in DOMAIN ks |-> Str(ks[i])]
    ELSE <<Str(d.v)>>

\* a list comprehension [X.from_dict(e) for e in data.get(key, [])]
list_raises(d, key, required) ==
    LET l == py_get(d, key, Arr(<<>>))
    IN  IF iter_raises(l) # "none" THEN iter_raises(l)
        ELSE first_raise([i \in 1..Len(iter_items(l)) |->
                             entry_raises(iter_items(l)[i], required)], 1)

\* {k: Task.from_dict(v) for k, v in data.get("tasks", {}).items()}: only a
\* dict has items
tasks_raises(d) ==
    LET t == py_get(d, "tasks", Obj(<<>>))
    IN  IF t.t # "object" THEN "AttributeError"
        ELSE IF \E k \in DOMAIN t.v : entry_raises(t.v[k], <<"id", "title">>) # "none"
        THEN entry_raises(t.v[CHOOSE k \in DOMAIN t.v :
                                 entry_raises(t.v[k], <<"id", "title">>) # "none"],
                          <<"id", "title">>)
        ELSE "none"

\* Config.from_dict and ShareConfig.from_dict read with get only: a value that
\* is no dict has no get
config_raises(d) ==
    LET c == py_get(d, "config", Obj(<<>>))
    IN  IF c.t # "object" THEN "AttributeError"
        ELSE IF py_get(c, "share", Obj(<<>>)).t # "object" THEN "AttributeError"
        ELSE "none"

\* the first exception of json.loads(text) followed by State.from_dict(data),
\* "none" when there is none
from_dict_raises(d) ==
    IF d.t = "invalid" THEN "JSONDecodeError"
    ELSE IF d.t # "object" THEN "AttributeError"
    ELSE first_raise(<<tasks_raises(d),
                       list_raises(d, "edges", <<"from", "to">>),
                       list_raises(d, "blocked", <<"id", "title", "blocker">>),
                       list_raises(d, "history", <<"id", "title", "completed_at">>),
                       config_raises(d)>>, 1)

\* the dict of plain values that State.from_dict reads its fields from, for a
\* document that raised nothing
scalars(d) == [k \in DOMAIN d.v |-> d.v[k].v]

plain_config(c) ==
    [k \in DOMAIN c.v |-> IF k = "share" THEN scalars(c.v[k]) ELSE c.v[k].v]

plain(d) ==
    [k \in DOMAIN d.v |->
        IF k = "tasks" THEN [t \in DOMAIN d.v[k].v |-> scalars(d.v[k].v[t])]
        ELSE IF k \in {"edges", "blocked", "history"}
        THEN [i \in 1..Len(iter_items(d.v[k])) |-> scalars(iter_items(d.v[k])[i])]
        ELSE IF k = "config" THEN plain_config(d.v[k])
        ELSE d.v[k].v]

\* wip load FILE [--merge] for any FILE: the two except clauses catch
\* JSONDecodeError and (KeyError, TypeError); any other exception leaves load
\* before save_state and before the backup
LoadFile(merge) ==
    LET err == from_dict_raises(file[1])
    IN  IF err = "JSONDecodeError" THEN Fail("MalformedSnapshot", <<"Invalid JSON">>)
        ELSE IF err \in {"KeyError", "TypeError"}
        THEN Fail("MalformedSnapshot", <<"Invalid state format">>)
        ELSE IF err # "none" THEN Fail("Exception", <<err>>)
        ELSE LET imported == from_dict(plain(file[1]))
                 remapped == remap_state(imported, next_id)
                 new_ids == {remapped.id_map[o] : o \in DOMAIN remapped.id_map}
             IN  /\ IF merge
                    THEN /\ tasks' = update(tasks, remapped.tasks)
                         /\ edges' = edges \o remapped.edges
                         /\ blocked' = blocked \o remapped.blocked
                         /\ history' = history \o remapped.history
                         /\ next_id' = remapped.next_id
                         /\ config' = config
                         /\ last' = Report("ok", <<>>)
                         /\ issued' = issued \cup new_ids
                         /\ everIssued' = everIssued \cup new_ids
                    ELSE /\ tasks' = imported.tasks
                         /\ edges' = imported.edges
                         /\ blocked' = imported.blocked
                         /\ history' = imported.history
                         /\ next_id' = imported.next_id
                         /\ config' = imported.config
                         /\ last' = Report("ok", <<"Backup saved">>)
                         /\ issued' = all_ids(imported)
                         /\ everIssued' = everIssued \cup all_ids(imported)
                 /\ merges' = merges + 1
                 /\ UNCHANGED <<file, completed, pub>>

\* The files given to load: a text that is no JSON, a JSON list, and the
\* objects that take, for each collection, one of a few values: the key left
\* out, a well-formed value, entries that lack a required key, and values of
\* another shape.
GoodTask == Obj([k \in {"id", "title", "active", "created_at"} |->
                   IF k = "id" THEN Num(1) ELSE IF k = "title" THEN Str("A")
                   ELSE IF k = "active" THEN [t |-> "boolean", v |-> TRUE] ELSE Str(1)])

GoodBlocked == Obj([k \in {"id", "title", "blocker", "created_at"} |->
                      IF k = "id" THEN Num(2) ELSE IF k = "title" THEN Str("A")
                      ELSE IF k = "blocker" THEN Str("x") ELSE Str(1)])

GoodHistory == Obj([k \in {"id", "title", "completed_at", "created_at"} |->
                      IF k = "id" THEN Num(3) ELSE IF k = "title" THEN Str("A")
                      ELSE IF k = "completed_at" THEN Str(2) ELSE Str(1)])

GoodEdge == Obj([k \in {"from", "to"} |-> IF k = "from" THEN Num(1) ELSE Num(2)])

\* an object without one of its keys
Without(d, key) == Obj([k \in DOMAIN d.v \ {key} |-> d.v[k]])

TasksChoices ==
    <<Absent, Obj([k \in {"1"} |-> GoodTask]),
      Obj([k \in {"1"} |-> Without(GoodTask, "id")]),
      Obj([k \in {"1"} |-> Without(GoodTask, "title")]),
      Obj([k \in {"1"} |-> Str("A")]),
      Arr(<<GoodTask>>)>>

EdgesChoices ==
    <<Absent, Arr(<<GoodEdge>>), Arr(<<Without(GoodEdge, "from")>>),
      Arr(<<Without(GoodEdge, "to")>>), Num(0)>>

BlockedChoices ==
    <<Absent, Arr(<<GoodBlocked>>), Arr(<<Without(GoodBlocked, "blocker")>>),
      Obj([k \in {"2"} |-> GoodBlocked])>>

HistoryChoices ==
    <<Absent, Arr(<<GoodHistory>>), Arr(<<Without(GoodHistory, "completed_at")>>)>>

ConfigChoices ==
    <<Absent, Obj([k \in {"max_active"} |-> Num(2)]), Arr(<<>>)>>

\* the object with the chosen values under the keys that are not left out
Document(t, e, b, h, c) ==
    LET pick == [k \in {"tasks", "edges", "blocked", "history", "config"} |->
                    IF k = "tasks" THEN TasksChoices[t]
                    ELSE IF k = "edges" THEN EdgesChoices[e]
                    ELSE IF k = "blocked" THEN BlockedChoices[b]
                    ELSE IF k = "history" THEN HistoryChoices[h]
                    ELSE ConfigChoices[c]]
    IN  Obj([k \in {j \in DOMAIN pick : pick[j].t # "absent"} |-> pick[k]])

\* The state in hand is the one left by add, add --blocked, add, mark 3 done,
\* link 1 2, mark 1 active and config max_active 1.
InitParse ==
    /\ \/ file = <<Invalid>>
       \/ file = <<Arr(<<>>)>>
       \/ \E t \in DOMAIN TasksChoices, e \in DOMAIN EdgesChoices, b \in DOMAIN BlockedChoices,
             h \in DOMAIN HistoryChoices, c \in DOMAIN ConfigChoices :
             file = <<Document(t, e, b, h, c)>>
    /\ tasks = [k \in {"1"} |-> Task(1, "A", TRUE, 1)]
    /\ edges = <<Edge(1, 2)>>
    /\ blocked = <<BlockedTask(2, "A", "x", 1)>>
    /\ history = <<HistoryEntry(3, "A", 2, 1)>>
    /\ next_id = 4
    /\ config = [Config EXCEPT !.max_active = 1]
    /\ last = Report("ok", <<>>)
    /\ issued = {1, 2, 3}
    /\ everIssued = {1, 2, 3}
    /\ merges = 0
    /\ completed = {}
    /\ pub = NoPublish

NextParse == \E merge \in BOOLEAN : Running /\ merges < MaxMerges /\ LoadFile(merge)

SpecParse == InitParse /\ [][NextParse]_vars

\* ------------------------------------------------------------------ publish
\* storage.py in one process: save_state, the publish threads it starts, and
\* the end of the process.  pub.threads[i] is the i-th thread started:
\* its position, the State it was given, the Markdown it rendered and how it
\* ended; pub.publish_thread is the handle _publish_thread (0 for None).  No
\* caller changes a State after it has passed it to save_state, so a thread
\* renders the state as it was at the call.
\* the publish threads one process starts
MaxPublish == 3

\* render_state_md: the sections Top of Mind, On Hold and Backlog, each the
\* tree of its ids, a line being the id, its depth, its title and how it is
\* set; the lines that depend on the clock (This Week, Updated) are left out
render_state_md(st) ==
    LET act == {int_key(k) : k \in {j \in DOMAIN st.tasks : st.tasks[j].active}}
        inact == {int_key(k) : k \in {j \in DOMAIN st.tasks : ~st.tasks[j].active}}
        held == {st.blocked[i].id : i \in 1..Len(st.blocked)}
        workflow == UNION {get_descendants(a, st.edges) \cap inact : a \in act}
        backlog == inact \ workflow
        blocked_tasks(tid) ==
            st.blocked[CHOOSE i \in 1..Len(st.blocked) :
                          /\ st.blocked[i].id = tid
                          /\ \A j \in (i + 1)..Len(st.blocked) : st.blocked[j].id # tid]
        section(name, ids, format(_)) ==
            LET ls == render_task_tree_md(ids, st.edges)
            IN  [i \in 1..Len(ls) |->
                    [section |-> name, id |-> ls[i].id, depth |-> ls[i].depth,
                     text |-> format(ls[i].id)]]
        format_active(tid) ==
            <<IF tid \in act THEN "bold" ELSE "italic", st.tasks[StrOf(tid)].title>>
        format_blocked(tid) == <<blocked_tasks(tid).title, blocked_tasks(tid).blocker>>
        format_backlog(tid) == <<"plain", st.tasks[StrOf(tid)].title>>
    IN  section("Top of Mind", act \cup workflow, format_active)
           \o section("On Hold", held, format_blocked)
           \o section("Backlog", backlog, format_backlog)

\* _auto_publish: a new thread is started and becomes the handle
auto_publish(state) ==
    [pub EXCEPT !.threads = Append(@, [pc |-> "started", state |-> state, md |-> <<>>,
                                       ended |-> "no"]),
                !.publish_thread = Len(pub.threads) + 1,
                !.saved = <<to_dict(state)>>]

\* save_state with the publish decided by starts: the file is written, the
\* thread is started or not, and the call returns
save_state_if(state, starts) ==
    /\ pub.main = "running"
    /\ tasks' = state.tasks
    /\ edges' = state.edges
    /\ blocked' = state.blocked
    /\ history' = state.history
    /\ next_id' = state.next_id
    /\ config' = state.config
    /\ pub' = IF starts THEN auto_publish(state)
              ELSE [pub EXCEPT !.saved = <<to_dict(state)>>]
    /\ last' = Report("ok", <<>>)
    /\ UNCHANGED <<file, issued, everIssued, merges, completed>>

\* a save_state that does not look at skip_publish
save_state_no_skip(state, skip_publish) ==
    save_state_if(state, /\ pub.auto_publish_enabled
                         /\ state.config.share.enabled
                         /\ state.config.share.gist_id # "")

\* save_state(state, skip_publish=...); state is the State the caller holds
save_state(state, skip_publish) ==
    save_state_if(state, /\ pub.auto_publish_enabled
                         /\ ~skip_publish
                         /\ state.config.share.enabled
                         /\ state.config.share.gist_id # "")

set_auto_publish(enabled) ==
    /\ pub.main = "running"
    /\ pub' = [pub EXCEPT !.auto_publish_enabled = enabled]
    /\ UNCHANGED <<persisted, last, file, issued, everIssued, merges, completed>>

\* the except clause of publish, and the branch "if not result.success": a
\* line on stderr, and the thread ends
report_failure(i, how) ==
    [pub EXCEPT !.threads[i].pc = "finished", !.threads[i].ended = how,
                !.stderr = Append(@, "[share] Update failed")]

\* thread i, first half: md = render_state_md(state), which may raise
publish_render(i, raises) ==
    /\ pub.main # "exited"
    /\ i \in DOMAIN pub.threads
    /\ pub.threads[i].pc = "started"
    /\ pub' = IF raises THEN report_failure(i, "raised")
              ELSE [pub EXCEPT !.threads[i].pc = "rendered",
                               !.threads[i].md = render_state_md(pub.threads[i].state)]
    /\ UNCHANGED <<persisted, last, file, issued, everIssued, merges, completed>>

\* thread i, second half: update_gist(gist_id, "wip.md", md) succeeds and
\* replaces the remote document, or fails, or raises
publish_update(i, result) ==
    /\ pub.main # "exited"
    /\ i \in DOMAIN pub.threads
    /\ pub.threads[i].pc = "rendered"
    /\ pub' = IF result = "success"
              THEN [pub EXCEPT !.threads[i].pc = "finished", !.threads[i].ended = "success",
                               !.remote = <<pub.threads[i].md>>]
              ELSE report_failure(i, result)
    /\ UNCHANGED <<persisted, last, file, issued, everIssued, merges, completed>>

alive(i) == pub.threads[i].pc # "finished"

\* the main line ends (the command returns, or sys.exit): the interpreter
\* starts its shutdown; in_flight notes the threads alive at that moment
exit ==
    /\ pub.main = "running"
    /\ pub' = [pub EXCEPT !.main = "shutdown",
                          !.in_flight = {i \in DOMAIN pub.threads : alive(i)}]
    /\ UNCHANGED <<persisted, last, file, issued, everIssued, merges, completed>>

\* a shutdown that does not wait for the threads (threads made with daemon=True)
thread_shutdown_daemon ==
    /\ pub.main = "shutdown"
    /\ pub' = [pub EXCEPT !.main = "atexit"]
    /\ UNCHANGED <<persisted, last, file, issued, everIssued, merges, completed>>

\* threading.Thread(target=publish) makes a non-daemon thread: the interpreter
\* joins every such thread before it runs the exit hooks
thread_shutdown ==
    /\ pub.main = "shutdown"
    /\ \A i \in DOMAIN pub.threads : ~alive(i)
    /\ pub' = [pub EXCEPT !.main = "atexit"]
    /\ UNCHANGED <<persisted, last, file, issued, everIssued, merges, completed>>

\* _wait_for_publish, the exit hook: if the handle is a live thread, join it
\* with timeout=20; the hook returns at once when there is nothing to join,
\* when the thread ends (the step is taken after the thread's last), or when
\* the 20 have passed with the thread still alive
wait_for_publish ==
    /\ pub.main = "atexit"
    /\ pub' = [pub EXCEPT !.main = "exited",
                          !.timed_out = pub.publish_thread # 0 /\ alive(pub.publish_thread)]
    /\ UNCHANGED <<persisted, last, file, issued, everIssued, merges, completed>>

\* the States a caller saves: one task or two linked ones, shared or not
PublishStates ==
    {[tasks |-> [k \in {Numerals[j] : j \in 1..n} |->
                    Task(int_key(k), IF k = "1" THEN "A" ELSE "B", k = "1", 1)],
      edges |-> IF n = 2 THEN <<Edge(1, 2)>> ELSE <<>>,
      blocked |-> <<>>, history |-> <<>>, next_id |-> n + 1,
      config |-> [Config EXCEPT !.share = [enabled |-> sh[1], gist_id |-> sh[2],
                                           gist_url |-> sh[2]]]] :
        n \in 1..2, sh \in {<<TRUE, "g">>, <<FALSE, "g">>, <<TRUE, "">>}}

CanPublish == Len(pub.threads) < MaxPublish

NextPublish ==
    \/ \E state \in PublishStates, skip_publish \in BOOLEAN :
          CanPublish /\ save_state(state, skip_publish)
    \/ \E enabled \in BOOLEAN : set_auto_publish(enabled)
    \/ \E i \in 1..MaxPublish, raises \in BOOLEAN : publish_render(i, raises)
    \/ \E i \in 1..MaxPublish, result \in {"success", "failure", "raised"} :
          publish_update(i, result)
    \/ exit
    \/ thread_shutdown
    \/ wait_for_publish

SpecPublish == Init /\ [][NextPublish]_vars

\* ------------------------------------------------------------------ properties
\* The edge list read as a set of pairs, and reachability over it, stated without
\* the traversals of the code.
EdgeSet(es) == {<<es[i].from_id, es[i].to_id>> : i \in 1..Len(es)}

Successors(es, S) == {p[2] : p \in {q \in EdgeSet(es) : q[1] \in S}}

RECURSIVE ReachFrom(_, _)
ReachFrom(es, S) ==
    LET n == S \cup Successors(es, S) IN IF n = S THEN S ELSE ReachFrom(es, n)

\* the ids reached from a over one or more edges
Descendants(es, a) == ReachFrom(es, Successors(es, {a}))

Reaches(es, a, b) == b \in Descendants(es, a)

Acyclic(es) == \A p \in EdgeSet(es) : ~Reaches(es, p[1], p[1])

PoolIds == {tasks[k].id : k \in DOMAIN tasks}

HeldIds == {blocked[i].id : i \in 1..Len(blocked)}

HistoryIds == {history[i].id : i \in 1..Len(history)}

LiveIds == PoolIds \cup HeldIds

\* the prerequisites of t that are still in the pool or held
LiveDeps(t) == {p[1] : p \in {q \in EdgeSet(edges) : q[2] = t /\ q[1] \in LiveIds}}

InactiveInPool(t) == has_task(t) /\ ~get_task(t).active

Errors == {"NotFound", "OnHold", "SelfLoop", "DuplicateEdge", "CycleDetected",
           "EdgeNotFound", "DependencyIncomplete", "MaxActiveReached", "MissingBlocker",
           "AlreadyOnHold", "InvalidConfigValue", "UnknownKey"}

\* C1: the edge set never holds a cycle, and a link(from_id, to_id) for which
\* to_id already reaches from_id over the edges fails with CycleDetected and
\* leaves the edge set unchanged.
C1_AcyclicAndCycleDetected ==
    /\ [](Acyclic(edges))
    /\ [][\A from_id, to_id \in Ids :
            (Link(from_id, to_id) /\ Reaches(edges, to_id, from_id))
               => (last'.res = "CycleDetected" /\ edges' = edges)]_vars

\* C2: after a successful done or gone on X no edge has X as an endpoint,
\* whether X was in the pool or held.
C2_NoEdgeAfterDoneOrGone ==
    [][\A x \in Ids :
          (((\E now \in DoneTimes : MarkDone(x, now)) \/ MarkGone(x)) /\ last'.res = "ok")
             => (\A p \in EdgeSet(edges') : p[1] # x /\ p[2] # x)]_vars

\* C4 as stated: mark active on a pool task with an incoming edge from an id in
\* pool or held fails with DependencyIncomplete, whatever the active count, and
\* leaves the task inactive and the state unchanged.
C4_ActiveWithDepFails ==
    [][\A t \in Ids :
          (MarkActive(t) /\ has_task(t) /\ LiveDeps(t) # {})
             => /\ last'.res = "DependencyIncomplete"
                /\ ~tasks'[StrOf(t)].active
                /\ UNCHANGED persisted]_vars

\* C4 amended: the same for a pool task that is inactive.
C4_InactiveWithDepFails ==
    [][\A t \in Ids :
          (MarkActive(t) /\ InactiveInPool(t) /\ LiveDeps(t) # {})
             => /\ last'.res = "DependencyIncomplete"
                /\ ~tasks'[StrOf(t)].active
                /\ UNCHANGED persisted]_vars

\* C4 witness: an activation was refused for its dependencies although the
\* ceiling was reached as well.
C4_Witness ==
    /\ last.res = "DependencyIncomplete"
    /\ active_count >= config.max_active
    /\ \E t \in Ids : /\ InactiveInPool(t)
                      /\ LiveDeps(t) # {}
                      /\ last.info = FromIds(get_edges_to(edges, t))

\* C5: a pool task whose prerequisites are all resolved (no incoming edge from
\* an id in pool or held is left) is activated by mark active when
\* active_count < max_active.
C5_ResolvedThenActivates ==
    [][\A t \in Ids :
          (MarkActive(t) /\ InactiveInPool(t) /\ LiveDeps(t) = {}
             /\ active_count < config.max_active)
             => (last'.res = "ok" /\ tasks'[StrOf(t)].active)]_vars

\* C6: with active_count = max_active, mark active on an inactive pool task
\* without unresolved prerequisites fails with MaxActiveReached and changes
\* nothing; once one of the active tasks is marked inactive or done, that
\* activation is accepted.
C6_Ceiling ==
    [][\A t \in Ids :
          (InactiveInPool(t) /\ LiveDeps(t) = {} /\ active_count = config.max_active)
             => /\ MarkActive(t) => (last'.res = "MaxActiveReached" /\ UNCHANGED persisted)
                /\ \A a \in Ids \ {t} :
                      (/\ has_task(a)
                       /\ get_task(a).active
                       /\ MarkInactive(a) \/ \E now \in DoneTimes : MarkDone(a, now)
                       /\ last'.res = "ok")
                         => active_check(t)' = "ok"]_vars

\* C7: a successful link(h, t) with h held moves to held exactly t and the
\* descendants of t that are in the pool, appended with the blocker "Task h"
\* and their title and created_at; the entries already held are kept as they
\* are, the moved ids are the ones reported, each once; with h in the pool
\* nothing moves.
C7_Cascade ==
    [][\A h, t \in CascadeIds :
          (last'.res = "ok" /\ Len(edges') = Len(edges) + 1 /\ Link(h, t))
             => LET target == ({t} \cup Descendants(edges, t)) \cap PoolIds
                    old == Len(blocked)
                IN  IF h \in HeldIds
                    THEN /\ DOMAIN tasks' = DOMAIN tasks \ {StrOf(x) : x \in target}
                         /\ \A k \in DOMAIN tasks' : tasks'[k] = tasks[k]
                         /\ Len(blocked') = old + Cardinality(target)
                         /\ SubSeq(blocked', 1, old) = blocked
                         /\ {blocked'[i].id : i \in (old + 1)..Len(blocked')} = target
                         /\ \A i \in (old + 1)..Len(blocked') :
                               blocked'[i] = BlockedTask(blocked'[i].id,
                                                         tasks[StrOf(blocked'[i].id)].title,
                                                         "Task " \o StrOf(h),
                                                         tasks[StrOf(blocked'[i].id)].created_at)
                         /\ Range(last'.info) = {x \in target : tasks[StrOf(x)].title # ""}
                         /\ Len(last'.info) = Cardinality(Range(last'.info))
                         /\ target \cap HeldIds = {}
                    ELSE /\ tasks' = tasks
                         /\ blocked' = blocked
                         /\ last'.info = <<>>]_vars

\* C7 witness: a link from a held task moved a task, its successor and the
\* successor of that one, three edges being there.
C7_Witness ==
    /\ Len(last.info) = 3
    /\ Len(blocked) = 4
    /\ blocked[1].blocker = "x"
    /\ \E a, b, c \in Range(last.info) :
          /\ <<blocked[1].id, a>> \in EdgeSet(edges)
          /\ <<a, b>> \in EdgeSet(edges)
          /\ <<b, c>> \in EdgeSet(edges)

\* C8: a command that ends in an error leaves tasks, edges, blocked, history,
\* next_id and config as they were.
C8_ErrorChangesNothing == [][last'.res \in Errors => UNCHANGED persisted]_vars

\* C8 witness: a link was refused for a cycle in a graph that holds edges.
C8_Witness == last.res = "CycleDetected" /\ Len(edges) = MaxEdges

\* C3: an id is in at most one of pool, held and history, and at most once in
\* held, in every state reached by the commands, merge import and reset
\* included.
C3_OneMembership ==
    /\ PoolIds \cap HeldIds = {}
    /\ PoolIds \cap HistoryIds = {}
    /\ HeldIds \cap HistoryIds = {}
    /\ Cardinality(HeldIds) = Len(blocked)
    /\ \A k \in DOMAIN tasks : k = StrOf(tasks[k].id)

\* C3 witness: after a merge import the pool, held and history each hold an id.
C3_Witness ==
    /\ merges >= 1
    /\ PoolIds # {}
    /\ HeldIds # {}
    /\ HistoryIds # {}
    /\ next_id = MaxTasks + 1

\* C9: every edge endpoint is an id of the pool or of held, in every state.
C9_EndpointsLive ==
    \A p \in EdgeSet(edges) : p[1] \in LiveIds /\ p[2] \in LiveIds

\* C10 as stated: next_id is greater than every id handed out since the
\* start and no step lowers it, reset included.
C10_NeverReused ==
    /\ [](\A i \in everIssued : i < next_id)
    /\ [][next_id' >= next_id]_vars

\* C10: next_id is greater than every id handed out since the last reset; a
\* step other than reset does not lower it and hands out only ids that were
\* not handed out since the last reset; reset puts it back to 1.
C10_SinceReset ==
    /\ [](\A i \in issued : i < next_id)
    /\ [][IF Reset
          THEN next_id' = 1
          ELSE /\ next_id' >= next_id
               /\ \A i \in issued' \ issued : i >= next_id /\ i < next_id']_vars

\* C10 witness: ids were handed out before a reset, and fewer after it, a
\* merge import having taken place.
C10_Witness ==
    /\ merges >= 1
    /\ issued # {}
    /\ issued # everIssued
    /\ next_id > 1

\* the ids of the entries of a snapshot file d
FileIds(d) ==
    {d.tasks[k].id : k \in DOMAIN d.tasks}
        \cup {d.blocked[i].id : i \in 1..Len(d.blocked)}
        \cup {d.history[i].id : i \in 1..Len(d.history)}

\* start + k - 1 for the k-th smallest id o of ids
NewId(ids, start, o) == start + Cardinality({x \in ids : x < o})

\* C11: a merge import of the snapshot d into a state with next_id = start
\* gives the k-th smallest id of d's pool, held and history the id
\* start + k - 1, appends d's entries with their ids rewritten and nothing
\* else changed, appends d's edges with both endpoints rewritten (the edges
\* with an endpoint that is no id of d are left out), and sets next_id to
\* start + the number of ids of d.
C11_Remap ==
    [][merges' = merges + 1 =>
         LET d == file[1]
             ids == FileIds(d)
             new(o) == NewId(ids, next_id, o)
             kept == SelectSeq(d.edges, LAMBDA e : e.from \in ids /\ e.to \in ids)
         IN  /\ next_id' = next_id + Cardinality(ids)
             /\ DOMAIN tasks' = DOMAIN tasks \cup {StrOf(new(d.tasks[k].id)) : k \in DOMAIN d.tasks}
             /\ \A k \in DOMAIN tasks : tasks'[k] = tasks[k]
             /\ \A k \in DOMAIN d.tasks :
                   tasks'[StrOf(new(d.tasks[k].id))] = [d.tasks[k] EXCEPT !.id = new(@)]
             /\ blocked' = blocked \o [i \in 1..Len(d.blocked) |->
                                          [d.blocked[i] EXCEPT !.id = new(@)]]
             /\ history' = history \o [i \in 1..Len(d.history) |->
                                          [d.history[i] EXCEPT !.id = new(@)]]
             /\ edges' = edges \o [i \in 1..Len(kept) |->
                                      Edge(new(kept[i].from), new(kept[i].to))]]_vars

\* C11 witness: a snapshot with the ids 1..MaxRemapIds, in the pool, held and
\* history, was merged at MaxStart and an edge came with it.
C11_Witness ==
    /\ merges = 1
    /\ next_id = MaxStart + MaxRemapIds
    /\ PoolIds \cup HeldIds \cup HistoryIds = MaxStart..(MaxStart + MaxRemapIds - 1)
    /\ PoolIds # {} /\ HeldIds # {} /\ HistoryIds # {}
    /\ Len(edges) >= 1

\* t is an active pool task after the step and was not one before it
NewlyActive(t) ==
    /\ StrOf(t) \in DOMAIN tasks' /\ tasks'[StrOf(t)].active
    /\ ~(StrOf(t) \in DOMAIN tasks /\ tasks[StrOf(t)].active)

C13_Done ==
    [][\A x \in Ids, now \in DoneTimes :
          (MarkDone(x, now) /\ has_task(x)) =>
             IF \A p \in EdgeSet(edges) : p[2] # x
             THEN /\ last'.res = "ok"
                  /\ DOMAIN tasks' = DOMAIN tasks \ {StrOf(x)}
                  /\ \A k \in DOMAIN tasks' : tasks'[k] = tasks[k]
                  /\ edges' = SelectSeq(edges, LAMBDA e : e.from_id # x /\ e.to_id # x)
                  /\ Len(history') = Len(history) + 1
                  /\ SubSeq(history', 1, Len(history)) = history
                  /\ history'[Len(history')] =
                        [id |-> x, title |-> tasks[StrOf(x)].title, completed_at |-> now,
                         created_at |-> tasks[StrOf(x)].created_at]
                  /\ UNCHANGED <<blocked, next_id, config>>
             ELSE /\ last'.res = "DependencyIncomplete"
                  /\ UNCHANGED persisted]_vars

\* C13 witness: a task was marked done while another one was active; one of
\* two edges is left and the entry carries the two times.
C13_Witness ==
    /\ last = Report("ok", <<>>)
    /\ Len(history) = 1
    /\ history[1].created_at \in Times /\ history[1].completed_at \in DoneTimes
    /\ history[1].id \notin LiveIds
    /\ Cardinality(PoolIds) = MaxTasks - 1
    /\ Len(edges) = MaxEdges - 1
    /\ active_count = 1

\* C14: link(from_id, to_id) reports the first check that fails, in the order
\* from_id neither in the pool nor held (NotFound naming from_id), to_id
\* neither in the pool nor held (NotFound naming to_id), from_id = to_id
\* (SelfLoop), the edge is there (DuplicateEdge), to_id reaches from_id
\* (CycleDetected), and then changes nothing; an id that is only in history is
\* not found; when no check fails the edge is appended once.
C14_LinkOrder ==
    [][\A from_id, to_id \in Ids :
          Link(from_id, to_id) =>
             IF from_id \notin LiveIds
             THEN last' = Report("NotFound", <<from_id>>) /\ UNCHANGED persisted
             ELSE IF to_id \notin LiveIds
             THEN last' = Report("NotFound", <<to_id>>) /\ UNCHANGED persisted
             ELSE IF from_id = to_id
             THEN last'.res = "SelfLoop" /\ UNCHANGED persisted
             ELSE IF <<from_id, to_id>> \in EdgeSet(edges)
             THEN last'.res = "DuplicateEdge" /\ UNCHANGED persisted
             ELSE IF Reaches(edges, to_id, from_id)
             THEN last'.res = "CycleDetected" /\ UNCHANGED persisted
             ELSE /\ last'.res = "ok"
                  /\ edges' = Append(edges, Edge(from_id, to_id))]_vars

\* C14 witness: a link named an id that is only in history, with a task in the
\* pool or held, and was answered NotFound for that id.
C14_Witness ==
    /\ last.res = "NotFound"
    /\ Len(last.info) = 1
    /\ last.info[1] \in HistoryIds
    /\ LiveIds # {}

\* C15: in every state the edge list holds no ordered pair twice and no edge
\* from an id to itself.
C15_NoDuplicateNoSelfLoop ==
    /\ \A i, j \in 1..Len(edges) : edges[i] = edges[j] => i = j
    /\ \A i \in 1..Len(edges) : edges[i].from_id # edges[i].to_id

\* C15 witness: with the edge list full, a link of a pair that is in it was
\* rejected as a duplicate.
C15_Witness ==
    /\ last.res = "DuplicateEdge"
    /\ Len(edges) = MaxEdges

\* C16: mark hold without a blocker, or with an empty one, fails with
\* MissingBlocker whatever the id; with a blocker, on a pool task x it removes
\* x from the pool and appends to held an entry with x's id, title and
\* created_at and that blocker (the active flag is not kept), leaving the
\* edges, the other tasks, history, next_id and config as they are; on a held
\* id it fails with AlreadyOnHold and on any other id with NotFound, changing
\* nothing.
C16_Hold ==
    [][\A x \in Ids, by \in Blockers :
          MarkHold(x, by) =>
             IF by = ""
             THEN last'.res = "MissingBlocker" /\ UNCHANGED persisted
             ELSE IF x \in PoolIds
             THEN /\ last'.res = "ok"
                  /\ DOMAIN tasks' = DOMAIN tasks \ {StrOf(x)}
                  /\ \A k \in DOMAIN tasks' : tasks'[k] = tasks[k]
                  /\ blocked' = Append(blocked,
                                       [id |-> x, title |-> tasks[StrOf(x)].title,
                                        blocker |-> by,
                                        created_at |-> tasks[StrOf(x)].created_at])
                  /\ UNCHANGED <<edges, history, next_id, config>>
             ELSE IF x \in HeldIds
             THEN last'.res = "AlreadyOnHold" /\ UNCHANGED persisted
             ELSE last'.res = "NotFound" /\ UNCHANGED persisted]_vars

\* C16 witness: the last held entry has the blocker of a mark hold, an edge
\* into it from a pool task and an edge out of it to a pool task.
C16_Witness ==
    /\ last = Report("ok", <<>>)
    /\ blocked # <<>>
    /\ blocked[Len(blocked)].blocker = "x"
    /\ \E a, b \in PoolIds :
          /\ <<a, blocked[Len(blocked)].id>> \in EdgeSet(edges)
          /\ <<blocked[Len(blocked)].id, b>> \in EdgeSet(edges)

\* C17: mark release on a held id x removes the entry of x from held, keeping
\* the other entries in order, and puts x into the pool as an inactive task
\* with the title and created_at of the entry, leaving the edges, the other
\* tasks, history, next_id and config as they are; on an id that is not held
\* it fails with NotFound and changes nothing.
C17_Release ==
    [][\A x \in Ids :
          MarkRelease(x) =>
             IF x \in HeldIds
             THEN LET i == CHOOSE n \in 1..Len(blocked) : blocked[n].id = x
                  IN  /\ last'.res = "ok"
                      /\ blocked' = SubSeq(blocked, 1, i - 1) \o
                                      SubSeq(blocked, i + 1, Len(blocked))
                      /\ DOMAIN tasks' = DOMAIN tasks \cup {StrOf(x)}
                      /\ \A k \in DOMAIN tasks : tasks'[k] = tasks[k]
                      /\ tasks'[StrOf(x)] = [id |-> x, title |-> blocked[i].title,
                                             active |-> FALSE,
                                             created_at |-> blocked[i].created_at]
                      /\ UNCHANGED <<edges, history, next_id, config>>
             ELSE last'.res = "NotFound" /\ UNCHANGED persisted]_vars

\* C17 witness: t is an inactive pool task although the link of the held g to
\* h, made after the link of h to t, moved h and its successors to held.
C17_Witness ==
    \E g, h, t \in Ids :
        /\ edges = <<Edge(h, t), Edge(g, h)>>
        /\ has_blocked(g)
        /\ has_blocked(h) /\ get_blocked(h).blocker = "Task " \o StrOf(g)
        /\ has_task(t) /\ ~get_task(t).active
        /\ last = Report("ok", <<>>)

\* C18: mark gone on x deletes one entry, from the first of pool, held and
\* history that holds x, and leaves the other entries as they are; it fails
\* with NotFound, changing nothing, only when x is in none of them; a
\* deletion from the pool or from held deletes every edge touching x as well,
\* a deletion from history leaves the edges as they are.
C18_Gone ==
    [][\A x \in Ids :
          MarkGone(x) =>
             IF x \in PoolIds
             THEN /\ last'.res = "ok"
                  /\ DOMAIN tasks' = DOMAIN tasks \ {StrOf(x)}
                  /\ \A k \in DOMAIN tasks' : tasks'[k] = tasks[k]
                  /\ edges' = SelectSeq(edges, LAMBDA e : e.from_id # x /\ e.to_id # x)
                  /\ UNCHANGED <<blocked, history, next_id, config>>
             ELSE IF x \in HeldIds
             THEN LET i == CHOOSE n \in 1..Len(blocked) :
                              blocked[n].id = x /\ \A m \in 1..(n - 1) : blocked[m].id # x
                  IN  /\ last'.res = "ok"
                      /\ blocked' = SubSeq(blocked, 1, i - 1) \o
                                      SubSeq(blocked, i + 1, Len(blocked))
                      /\ edges' = SelectSeq(edges, LAMBDA e : e.from_id # x /\ e.to_id # x)
                      /\ UNCHANGED <<tasks, history, next_id, config>>
             ELSE IF x \in HistoryIds
             THEN LET i == CHOOSE n \in 1..Len(history) :
                              history[n].id = x /\ \A m \in 1..(n - 1) : history[m].id # x
                  IN  /\ last'.res = "ok"
                      /\ history' = SubSeq(history, 1, i - 1) \o
                                      SubSeq(history, i + 1, Len(history))
                      /\ UNCHANGED <<tasks, edges, blocked, next_id, config>>
             ELSE last'.res = "NotFound" /\ UNCHANGED persisted]_vars

\* C19: add succeeds, gives the new entry the id next_id had and raises
\* next_id by one; with no blocker (or an empty one) the entry is an inactive
\* pool task, with a blocker a held entry with that blocker, in both cases
\* with the title given and the time of the call; the entries that were
\* there, the edges, history and config stay as they are.
C19_Add ==
    [][\A title \in Titles, blocker \in Blockers, now \in Times :
          Add(title, blocker, now) =>
             /\ last'.res = "ok"
             /\ next_id' = next_id + 1
             /\ next_id \notin PoolIds \cup HeldIds \cup HistoryIds
             /\ IF blocker = ""
                THEN /\ DOMAIN tasks' = DOMAIN tasks \cup {StrOf(next_id)}
                     /\ \A k \in DOMAIN tasks : tasks'[k] = tasks[k]
                     /\ tasks'[StrOf(next_id)] = [id |-> next_id, title |-> title,
                                                  active |-> FALSE, created_at |-> now]
                     /\ blocked' = blocked
                ELSE /\ blocked' = Append(blocked, [id |-> next_id, title |-> title,
                                                    blocker |-> blocker, created_at |-> now])
                     /\ tasks' = tasks
             /\ UNCHANGED <<edges, history, config>>]_vars

\* C19 witness: the id handed out last, the largest one, is held with the
\* blocker given to add, next to a pool task and a history entry.
C19_Witness ==
    /\ last = Report("ok", <<>>)
    /\ next_id = MaxTasks + 1
    /\ blocked # <<>>
    /\ blocked[Len(blocked)] = BlockedTask(next_id - 1, "A", "x", 1)
    /\ PoolIds # {}
    /\ HistoryIds # {}
    /\ edges = <<>>

\* C20: unlink(from_id, to_id) fails with EdgeNotFound and changes nothing
\* when the edge from from_id to to_id is not there, an edge from to_id to
\* from_id making no difference; otherwise it removes that one edge, keeps the
\* other edges in order and leaves pool, held, history, next_id and config as
\* they are.
C20_Unlink ==
    [][\A from_id, to_id \in Ids :
          Unlink(from_id, to_id) =>
             IF <<from_id, to_id>> \notin EdgeSet(edges)
             THEN last'.res = "EdgeNotFound" /\ UNCHANGED persisted
             ELSE LET i == CHOOSE n \in 1..Len(edges) : edges[n] = Edge(from_id, to_id)
                  IN  /\ last'.res = "ok"
                      /\ edges' = SubSeq(edges, 1, i - 1) \o SubSeq(edges, i + 1, Len(edges))
                      /\ UNCHANGED <<tasks, blocked, history, next_id, config>>]_vars

\* C20 witness: an unlink was answered EdgeNotFound with the edge list full,
\* a held task being an endpoint of an edge.
C20_Witness ==
    /\ last.res = "EdgeNotFound"
    /\ Len(edges) = MaxEdges
    /\ \E p \in EdgeSet(edges) : p[1] \in HeldIds \/ p[2] \in HeldIds

\* C21 as stated: an id that mark done has put into history is never again in
\* the pool or held, whatever the commands that follow.
C21_NeverBack == \A x \in completed : x \notin LiveIds

\* C21: a successful mark done puts the id into history and out of the pool;
\* from then on, as long as no reset intervenes, no command puts it into the
\* pool or into held: an id that done has put into history, that was handed
\* out since the last reset and that is neither in the pool nor held is in
\* neither of them after any step.
C21_NoWayBack ==
    [][/\ \A x \in Ids, now \in DoneTimes :
             (MarkDone(x, now) /\ last'.res = "ok")
                => (x \in HistoryIds' /\ x \notin LiveIds' /\ x \in issued)
       /\ \A x \in (completed \cap issued) \ LiveIds : x \notin LiveIds']_vars

\* C21 witness: an id put into history by done is still there, an entry is
\* held, a merge import has taken place and a larger id is in the pool or held.
C21_Witness ==
    /\ merges >= 1
    /\ blocked # <<>>
    /\ \E x \in completed \cap HistoryIds : \E y \in LiveIds : y > x

\* C22: when mark active or mark done fails with DependencyIncomplete, the ids
\* it lists are the from_id values of the unresolved incoming edges of the
\* task, in ascending order, whatever the order in which the edges were
\* linked.  Stated for the states in which every edge joins two ids of the pool
\* or held, where every incoming edge is unresolved.
C22_BlockingIdsAscending ==
    [][\A t \in Ids :
          (/\ \A p \in EdgeSet(edges) : p[1] \in LiveIds /\ p[2] \in LiveIds
           /\ MarkActive(t) \/ \E now \in DoneTimes : MarkDone(t, now)
           /\ last'.res = "DependencyIncomplete")
             => last'.info = sorted(LiveDeps(t))]_vars

\* C23: to_dict followed by from_dict gives back an equal state: the same pool
\* entries with their active flags, the same edges in the same order, the same
\* held and history sequences, the same next_id and the same config.  It holds
\* of every state the commands reach, and the file that save writes reads back
\* as the state that was saved.
C23_RoundTrip ==
    /\ [](from_dict(to_dict(State)) = State)
    /\ [][Save => from_dict(file'[1]) = State]_vars

\* C23 witness: a snapshot reads back as the state in hand, which has an active
\* task, a held entry, an edge and a max_active other than the default.
C23_Witness ==
    /\ file # <<>>
    /\ from_dict(file[1]) = State
    /\ active_count >= 1
    /\ blocked # <<>>
    /\ edges # <<>>
    /\ config.max_active # Config.max_active

\* C24: reset leaves the pool, the edges, held and history empty, and leaves
\* the config (max_active, stale_days and the sharing sub-config) as it was
\* before the reset.
C24_Reset ==
    [][Reset => /\ tasks' = <<>>
                /\ edges' = <<>>
                /\ blocked' = <<>>
                /\ history' = <<>>
                /\ config' = config]_vars

\* C24 witness: the state right after a reset of a state that had entries and
\* a max_active other than the default.
C24_Witness ==
    /\ everIssued # {}
    /\ issued = {}
    /\ tasks = <<>> /\ edges = <<>> /\ blocked = <<>> /\ history = <<>>
    /\ config.max_active # Config.max_active

\* C25: config max_active v and config stale_days v with a v that is not an
\* integer ("x") or is below 1 ("0") fail and leave the config unchanged, and
\* a config with any other key fails as unknown; so max_active and stale_days
\* are at least 1 in every state.
C25_Config ==
    /\ [](config.max_active >= 1 /\ config.stale_days >= 1)
    /\ [][\A arg \in ConfigArgs :
            SetConfig(arg[1], arg[2])
              => IF arg[1] \notin {"max_active", "stale_days"}
                 THEN last'.res = "UnknownKey" /\ UNCHANGED persisted
                 ELSE IF arg[2] \in {"x", "0"}
                 THEN last'.res = "InvalidConfigValue" /\ UNCHANGED persisted
                 ELSE last'.res = "ok"]_vars

\* C25 witness: max_active was set to 1, and a later config command was
\* rejected for its value.
C25_Witness ==
    /\ last.res = "InvalidConfigValue"
    /\ config.max_active = 1

\* C26: mark active, mark inactive and mark done on a held id fail with OnHold,
\* and on an id that is neither in the pool nor held (an id that is only in
\* history included) fail with NotFound; mark active on an active task and
\* mark inactive on an inactive task are no-ops; all of these leave the state
\* unchanged.
C26_MarkMisses ==
    [][\A t \in Ids :
          /\ (MarkActive(t) \/ MarkInactive(t) \/ \E now \in DoneTimes : MarkDone(t, now))
                => /\ (t \in HeldIds /\ t \notin PoolIds)
                         => (last'.res = "OnHold" /\ UNCHANGED persisted)
                   /\ t \notin LiveIds
                         => (last'.res = "NotFound" /\ UNCHANGED persisted)
          /\ (MarkActive(t) /\ t \in PoolIds /\ get_task(t).active)
                => (last'.res = "noop" /\ UNCHANGED persisted)
          /\ (MarkInactive(t) /\ t \in PoolIds /\ ~get_task(t).active)
                => (last'.res = "noop" /\ UNCHANGED persisted)]_vars

\* C26 witness: a mark on a held id was rejected with OnHold, in a state that
\* also has a pool task and a history entry.
C26_Witness ==
    /\ last.res = "OnHold"
    /\ blocked # <<>>
    /\ history # <<>>
    /\ PoolIds # {}

\* C27: mark inactive on an active pool task succeeds whatever its edges and
\* the active count: the active flag of that task becomes false, active_count
\* goes down by exactly 1 and nothing else changes.
C27_Inactive ==
    [][\A t \in Ids :
          (MarkInactive(t) /\ t \in PoolIds /\ get_task(t).active)
             => /\ last'.res = "ok"
                /\ DOMAIN tasks' = DOMAIN tasks
                /\ \A k \in DOMAIN tasks :
                      tasks'[k] = IF k = StrOf(t)
                                  THEN Task(t, tasks[k].title, FALSE, tasks[k].created_at)
                                  ELSE tasks[k]
                /\ active_count' = active_count - 1
                /\ UNCHANGED <<edges, blocked, history, next_id, config>>]_vars

\* C27 witness: the state that mark inactive leaves when the task has an
\* incoming edge from a pool task and the active count was at the ceiling:
\* that task is inactive, the other active task is still active.
C27_Witness ==
    \E t, p \in Ids :
        /\ last = Report("ok", <<>>)
        /\ has_task(t) /\ ~get_task(t).active
        /\ has_task(p) /\ has_edge(p, t)
        /\ active_count = config.max_active - 1
        /\ active_count >= 1

\* C28: the groups active, active-workflow, backlog and held that status
\* computes partition the ids of the pool and held; an inactive pool task is in
\* active-workflow iff some active pool task reaches it over one or more
\* edges, through tasks in any state; backlog is the inactive pool tasks not
\* in active-workflow; computing the groups changes nothing in the state.
C28_Groups ==
    [][(Status /\ last'.res = "shown")
          => LET g == last'.info
             IN  /\ g[1] \cup g[2] \cup g[3] \cup g[4] = LiveIds
                 /\ \A i, j \in 1..4 : i # j => g[i] \cap g[j] = {}
                 /\ g[1] = {t \in PoolIds : get_task(t).active}
                 /\ g[4] = HeldIds
                 /\ \A t \in Ids :
                       InactiveInPool(t)
                          => (t \in g[2] <=>
                                \E a \in PoolIds : get_task(a).active /\ Reaches(edges, a, t))
                 /\ g[2] \subseteq {t \in Ids : InactiveInPool(t)}
                 /\ g[3] = {t \in Ids : InactiveInPool(t)} \ g[2]
                 /\ UNCHANGED persisted]_vars

\* C28 witness: status has shown an inactive task in active-workflow that the
\* active task reaches only through a held task.
C28_Witness ==
    /\ last.res = "shown"
    /\ \E a, h, t \in Ids :
          /\ edges = <<Edge(a, h), Edge(h, t)>>
          /\ has_task(a) /\ get_task(a).active
          /\ has_blocked(h)
          /\ last.info[2] = {t}
          /\ last.info[3] = {}

\* the ids of the lines of a tree, in the order of the lines
LineIds(lines) == [i \in 1..Len(lines) |-> lines[i].id]

\* every id of S is the id of exactly one line
EachOnce(lines, S) == Len(lines) = Cardinality(S) /\ Range(LineIds(lines)) = S

\* C29: for any id set and edge list, cyclic edge data and chains deeper than
\* the depth cap included, each of the three tree builders (the two terminal
\* ones and the Markdown one) emits every id of the set exactly once.
C29_EveryIdOnce ==
    last.res = "shown" => \A b \in 1..3 : EachOnce(last.info[b], backlog_ids)

\* the terminal builders alone emit every id of the set exactly once
C29_TerminalEveryIdOnce ==
    last.res = "shown" => \A b \in 1..2 : EachOnce(last.info[b], backlog_ids)

\* C30: a load without --merge replaces the state wholesale: afterwards the
\* pool, the edges, held, history, next_id and the config are those of the
\* snapshot, with the ids of the snapshot (nothing is remapped), and nothing
\* of the state in hand before the load is left.
C30_LoadReplaces ==
    [][(file # <<>> /\ LoadReplace)
          => LET snapshot == file[1]
             IN  /\ DOMAIN tasks' = DOMAIN snapshot.tasks
                 /\ \A k \in DOMAIN snapshot.tasks : tasks'[k] = snapshot.tasks[k]
                 /\ Len(edges') = Len(snapshot.edges)
                 /\ \A i \in 1..Len(snapshot.edges) :
                       /\ edges'[i].from_id = snapshot.edges[i].from
                       /\ edges'[i].to_id = snapshot.edges[i].to
                 /\ blocked' = snapshot.blocked
                 /\ history' = snapshot.history
                 /\ next_id' = snapshot.next_id
                 /\ config' = snapshot.config]_vars

\* C30 witness: after a load the ids in hand are those of the snapshot; an id
\* handed out between the save and the load is gone and next_id is back at it.
C30_Witness ==
    /\ merges >= 1
    /\ last = Report("ok", <<>>)
    /\ issued = LiveIds \cup HistoryIds
    /\ issued # {}
    /\ \E i \in everIssued \ issued : i >= next_id

\* the structure State.from_dict expects: an object whose tasks, if any, are
\* an object of objects with id and title, whose edges, blocked and history,
\* if any, are lists of objects with their required keys, and whose config, if
\* any, is an object (with an object as share, if any)
HasKeys(d, keys) == d.t = "object" /\ keys \subseteq DOMAIN d.v

ListOf(d, key, keys) ==
    key \in DOMAIN d.v
       => /\ d.v[key].t = "array"
          /\ \A i \in 1..Len(d.v[key].v) : HasKeys(d.v[key].v[i], keys)

WellFormed(d) ==
    /\ d.t = "object"
    /\ "tasks" \in DOMAIN d.v
          => /\ d.v.tasks.t = "object"
             /\ \A k \in DOMAIN d.v.tasks.v : HasKeys(d.v.tasks.v[k], {"id", "title"})
    /\ ListOf(d, "edges", {"from", "to"})
    /\ ListOf(d, "blocked", {"id", "title", "blocker"})
    /\ ListOf(d, "history", {"id", "title", "completed_at"})
    /\ "config" \in DOMAIN d.v
          => /\ d.v.config.t = "object"
             /\ "share" \in DOMAIN d.v.config.v => d.v.config.v.share.t = "object"

\* C31: a load, with --merge or without, of a file that does not parse or
\* whose structure is not the expected one (a required key is missing, a
\* collection has another shape) ends in a reported error, not in an
\* exception, and leaves the state as it was, with no backup written.
C31_MalformedReported ==
    [][\A merge \in BOOLEAN :
          (LoadFile(merge) /\ ~WellFormed(file[1]))
             => /\ last'.res = "MalformedSnapshot"
                /\ UNCHANGED persisted
                /\ "Backup saved" \notin Range(last'.info)]_vars

\* a load of such a file leaves the state as it was and writes no backup,
\* whether it ends in a reported error or in an exception
C31_StateKept ==
    [][\A merge \in BOOLEAN :
          (LoadFile(merge) /\ ~WellFormed(file[1]))
             => /\ last'.res \in {"MalformedSnapshot", "Exception"}
                /\ UNCHANGED persisted
                /\ "Backup saved" \notin Range(last'.info)]_vars

\* the condition under which save_state publishes
publishes(state, skip_publish) ==
    /\ pub.auto_publish_enabled
    /\ ~skip_publish
    /\ state.config.share.enabled
    /\ state.config.share.gist_id # ""

\* a step of a publish thread leaves the caller alone: the state in memory,
\* the saved file, the caller's position and its last result are as before
CallerUntouched ==
    /\ UNCHANGED <<persisted, last>>
    /\ pub'.saved = pub.saved
    /\ pub'.main = pub.main

\* C32: save_state starts a publish thread iff auto-publish is enabled,
\* skip_publish is false, share.enabled is true and gist_id is set; it returns
\* with the caller running, the new thread still at its start and the
\* earlier threads where they were; a publish that raises or fails puts a
\* line on stderr and changes neither the remote document nor the caller; no
\* step of a publish thread changes the state in memory or the saved file.
C32_BackgroundPublish ==
    [][/\ \A state \in PublishStates, skip_publish \in BOOLEAN :
             save_state(state, skip_publish)
                => /\ Len(pub'.threads) = Len(pub.threads) + 1
                         <=> publishes(state, skip_publish)
                   /\ Len(pub'.threads) \in {Len(pub.threads), Len(pub.threads) + 1}
                   /\ SubSeq(pub'.threads, 1, Len(pub.threads)) = pub.threads
                   /\ publishes(state, skip_publish)
                         => pub'.threads[Len(pub'.threads)].pc = "started"
                   /\ pub'.main = "running"
                   /\ pub'.saved = <<to_dict(state)>>
                   /\ pub'.remote = pub.remote
       /\ \A i \in 1..MaxPublish, raises \in BOOLEAN :
             publish_render(i, raises)
                => /\ CallerUntouched
                   /\ pub'.remote = pub.remote
                   /\ raises => Len(pub'.stderr) = Len(pub.stderr) + 1
       /\ \A i \in 1..MaxPublish, result \in {"success", "failure", "raised"} :
             publish_update(i, result)
                => /\ CallerUntouched
                   /\ result # "success"
                         => /\ Len(pub'.stderr) = Len(pub.stderr) + 1
                            /\ pub'.remote = pub.remote]_vars

\* the caller has gone on (a second save_state has been made) while one
\* publish is still at its start and another has failed
C32_Witness ==
    /\ pub.main = "running"
    /\ pub.saved # <<>>
    /\ pub.stderr # <<>>
    /\ \E i, j \in DOMAIN pub.threads :
          /\ pub.threads[i].ended \in {"failure", "raised"}
          /\ pub.threads[j].pc = "started"

C35_LastStateRemote ==
    (/\ pub.threads # <<>>
     /\ \A i \in DOMAIN pub.threads : pub.threads[i].ended = "success"
     /\ pub.threads[Len(pub.threads)].state = State)
       => pub.remote = <<render_state_md(State)>>

\* C34: in every state in which held is empty and the pool is not, some pool
\* task has no incoming edge, so mark done accepts it (and, each done leaving
\* such a state again, the pool can be drained by done alone).
C34_PoolDrains ==
    (blocked = <<>> /\ tasks # <<>>)
       => \E k \in DOMAIN tasks : get_edges_to(edges, tasks[k].id) = <<>>

\* C36: a merge import leaves every pool, held and history entry and every
\* edge that was there in place and unchanged, leaves the config as it was
\* (that of the file is not taken), and gives the entries it adds ids that no
\* pool, held or history entry and no edge had before it.
C36_MergeFrame ==
    [][(file # <<>> /\ LoadMerge)
          => LET before == PoolIds \cup HeldIds \cup HistoryIds
                              \cup {edges[i].from_id : i \in 1..Len(edges)}
                              \cup {edges[i].to_id : i \in 1..Len(edges)}
                 added == {tasks'[k].id : k \in DOMAIN tasks' \ DOMAIN tasks}
                             \cup {blocked'[i].id : i \in (Len(blocked) + 1)..Len(blocked')}
                             \cup {history'[i].id : i \in (Len(history) + 1)..Len(history')}
             IN  /\ \A k \in DOMAIN tasks : k \in DOMAIN tasks' /\ tasks'[k] = tasks[k]
                 /\ Len(blocked') >= Len(blocked)
                 /\ SubSeq(blocked', 1, Len(blocked)) = blocked
                 /\ Len(history') >= Len(history)
                 /\ SubSeq(history', 1, Len(history)) = history
                 /\ Len(edges') >= Len(edges)
                 /\ SubSeq(edges', 1, Len(edges)) = edges
                 /\ config' = config
                 /\ added \cap before = {}
                 /\ Cardinality(added) = Cardinality(FileIds(file[1]))]_vars

\* C36 witness: after a merge the graph holds as many entries as the bound
\* allows, in the pool and in held, an edge, and a config that is not the
\* default one
C36_Witness ==
    /\ merges = 1
    /\ config # Config
    /\ Cardinality(PoolIds \cup HeldIds \cup HistoryIds) = MaxTasks
    /\ PoolIds # {}
    /\ HeldIds # {}
    /\ edges # <<>>

\* C37: a step takes an entry out of held only if it is the release of its id
\* (the id goes to the pool) or the gone of its id (the id goes nowhere); after
\* any other step, unlink of the edge that caused a cascade and gone or done of
\* the blocker included, the entry is in held as it was, blocker and all, and
\* its id is not in the pool.
C37_OnlyRelease ==
    [][\A i \in 1..Len(blocked) :
          LET b == blocked[i]
          IN  \/ MarkRelease(b.id)
              \/ MarkGone(b.id) /\ StrOf(b.id) \notin DOMAIN tasks'
              \/ /\ \E j \in 1..Len(blocked') : blocked'[j] = b
                 /\ StrOf(b.id) \notin DOMAIN tasks']_vars

\* C37 witness: t is held with the blocker "Task g" of a cascade, although the
\* edge from g to t has been unlinked and g is gone
C37_Witness ==
    \E g, t \in Ids :
        /\ has_blocked(t) /\ get_blocked(t).blocker = "Task " \o StrOf(g)
        /\ ~has_blocked(g) /\ ~has_task(g)
        /\ edges = <<>>
        /\ last = Report("ok", <<>>)

\* x is an active pool task
IsActive(x) == has_task(x) /\ get_task(x).active

\* C38: while max_active is the one the graph started with (config can only
\* lower it here, and nothing is imported), active_count <= max_active in
\* every state; a successful hold, done or gone of an active task lowers
\* active_count by 1, a link from a held task lowers it by 1 for each active
\* task the cascade moves to held, and release never raises it.
C38_ActiveCeiling ==
    /\ [](config.max_active = Config.max_active => active_count <= config.max_active)
    /\ [][/\ \A x \in Ids, by \in Blockers :
                (MarkHold(x, by) /\ IsActive(x) /\ last'.res = "ok")
                   => active_count' = active_count - 1
          /\ \A x \in Ids, now \in DoneTimes :
                (MarkDone(x, now) /\ IsActive(x) /\ last'.res = "ok")
                   => active_count' = active_count - 1
          /\ \A x \in Ids :
                (MarkGone(x) /\ IsActive(x) /\ last'.res = "ok")
                   => active_count' = active_count - 1
          /\ \A h \in Ids, t \in Ids :
                (Link(h, t) /\ has_blocked(h) /\ last'.res = "ok")
                   => active_count' = active_count
                         - Cardinality({x \in {t} \cup get_all_descendants(edges', t) :
                                           IsActive(x)})
          /\ \A x \in Ids : MarkRelease(x) => active_count' <= active_count]_vars

\* C38 witness: with the ceiling never lowered and reached, a mark active was
\* refused
C38_Witness ==
    /\ config.max_active = Config.max_active
    /\ active_count = config.max_active
    /\ last.res = "MaxActiveReached"
====
